---- MODULE Spec2Model ----
(***************************************************************************)
(* httptester: the HTC (Httptester Test Case) language.                    *)
(*                                                                         *)
(* The model follows the Go sources: the scanner (scanner.go), the stanza  *)
(* parser (parser.go) and the expect/tx command parsers (commands).        *)
(* A script is a sequence of one-character strings; the scanner reads it   *)
(* rune by rune exactly as scanner.scan does, and the parser is a state    *)
(* machine whose control points (pc) are the places where the Go code      *)
(* calls ScanUseful.                                                       *)
(*                                                                         *)
(* The token type NEWLINE is named by the tx parsers and by the scanner    *)
(* test, but scanner.go declares no such type and never returns it: a line *)
(* break is whitespace for scanner.scan (isWhitespace).  The model keeps   *)
(* the comparison with NEWLINE in the tx parsers as the code has it.       *)
(*                                                                         *)
(* Four specifications: Spec is Parse on a script; SpecScan is a caller    *)
(* of the scanner alone; SpecMain is main: Parse, then the handlers, the   *)
(* clients and the evaluation of their Expects; SpecOrigin is the origin   *)
(* server with its connections served by concurrent goroutines.            *)
(***************************************************************************)
EXTENDS Integers, Sequences, FiniteSets, TLC

VARIABLES
    script,   \* the script as a sequence of named fragments (what Init chose)
    input,    \* the script text: the runes behind the bufio.Reader
    sc,       \* the scanner: [pos: next rune to read, cu: UnreadRune is valid]
    token,    \* the parser's local variable token (last ScanUseful result)
    pc,       \* control point of Parse / parseHandle / parseClient / commands
    ret,      \* the stanza parser a command parser returns to
    h,        \* Parse: var h []HandleStanza
    c,        \* Parse: var c []ClientStanza
    hs,       \* parseHandle: var h HandleStanza
    cs,       \* parseClient: var c ClientStanza
    exp,      \* the Expect being parsed
    err,      \* the error Parse returns
    mux,      \* http.DefaultServeMux: the HandleStanzas origin.addHandler registered
    origin,   \* main: origin, its errors list
    proxy,    \* main: the proxy process, "started" or "stopped"
    ci,       \* main: index of the client stanza being run
    ei,       \* index of the Expect being evaluated (client loop or handler loop)
    hi,       \* the handler closure that is serving: index of its stanza in mux
    req,      \* the http.Request the handler closure is serving
    writer,   \* the http.ResponseWriter of the handler closure: what Send wrote
    resp,     \* main: the *http.Response of the current client
    exit,     \* the exit status of the process, -1 while it runs
    logged,   \* what log.Fatal / log.Fatalf printed about a failed Expect
    evals,    \* history: the evaluations of Expects so far
    scanned,  \* history: the calls made on the scanner and what they returned
    conns     \* the origin's connections: the handler closure each one runs

parseVars == <<script, input, sc, token, pc, ret, h, c, hs, cs, exp, err>>

mainVars == <<mux, origin, proxy, ci, ei, hi, req, writer, resp, exit, logged, evals, conns>>

vars == <<script, input, sc, token, pc, ret, h, c, hs, cs, exp, err,
          mux, origin, proxy, ci, ei, hi, req, writer, resp, exit, logged, evals, scanned, conns>>

-----------------------------------------------------------------------------
(* Runes *)

Letter ==
    {"a","b","c","d","e","f","g","h","i","j","k","l","m",
     "n","o","p","q","r","s","t","u","v","w","x","y","z",
     "A","B","C","D","E","F","G","H","I","J","K","L","M",
     "N","O","P","Q","R","S","T","U","V","W","X","Y","Z"}

Digit == {"0","1","2","3","4","5","6","7","8","9"}

\* var eof = rune(0): the marker read() returns once the reader is exhausted
eof == "NUL"

isWhitespace(ch) == ch = " " \/ ch = "\t" \/ ch = "\n"

isLetter(ch) == ch \in Letter

isDigit(ch) == ch \in Digit

\* the condition scan and scanIdent use for an identifier rune
isIdentRune(ch) == isLetter(ch) \/ isDigit(ch) \/ ch = "-" \/ ch = "_"

newToken(t, v) == [typ |-> t, val |-> v]

-----------------------------------------------------------------------------
(* The scanner.  Each operator takes the scanner state s and returns the   *)
(* token together with the scanner state after the call.                   *)

\* ReadRune: at end of input it fails and leaves no rune to unread
read(s) ==
    IF s.pos <= Len(input)
    THEN [ch |-> input[s.pos], s |-> [pos |-> s.pos + 1, cu |-> TRUE]]
    ELSE [ch |-> eof, s |-> [pos |-> s.pos, cu |-> FALSE]]

\* UnreadRune: valid only right after a successful ReadRune; its error is dropped
unread(s) ==
    IF s.cu THEN [pos |-> s.pos - 1, cu |-> FALSE] ELSE s

RECURSIVE scanWhitespace(_)
scanWhitespace(s) ==
    IF read(s).ch = eof THEN [tok |-> newToken("WS", <<" ">>), s |-> read(s).s]
    ELSE IF ~isWhitespace(read(s).ch)
    THEN [tok |-> newToken("WS", <<" ">>), s |-> unread(read(s).s)]
    ELSE scanWhitespace(read(s).s)

\* the loop of scanQuotedString: buf is what was read since the opening quote
RECURSIVE scanQuotedStringLoop(_, _)
scanQuotedStringLoop(s, buf) ==
    IF read(s).ch = eof THEN [tok |-> newToken("STRING", buf), s |-> read(s).s]
    ELSE IF read(s).ch = "\"" THEN [tok |-> newToken("STRING", buf), s |-> read(s).s]
    ELSE scanQuotedStringLoop(read(s).s, Append(buf, read(s).ch))

scanQuotedString(s) == scanQuotedStringLoop(s, <<>>)

\* the keyword table of scanIdent: "" when str is no keyword
keyword(str) ==
    CASE str = <<"e","q">> -> "EQUAL"
      [] str = <<"n","e">> -> "NOTEQUAL"
      [] str = <<"h","a","n","d","l","e">> -> "HANDLE"
      [] str = <<"c","l","i","e","n","t">> -> "CLIENT"
      [] str = <<"e","x","p","e","c","t">> -> "EXPECT"
      [] str = <<"r","e","q">> -> "REQ"
      [] str = <<"r","e","s","p">> -> "RESP"
      [] str = <<"m","e","t","h","o","d">> -> "METHOD"
      [] str = <<"h","e","a","d","e","r","s">> -> "HEADERS"
      [] str = <<"b","o","d","y">> -> "BODY"
      [] str = <<"s","t","a","t","u","s">> -> "STATUS"
      [] str = <<"t","x">> -> "TX"
      [] str = <<"-","b","o","d","y">> -> "BODY_ARG"
      [] str = <<"-","s","t","a","t","u","s">> -> "STATUS_ARG"
      [] str = <<"-","h","e","a","d","e","r">> -> "HEADER_ARG"
      [] str = <<"-","m","e","t","h","o","d">> -> "METHOD_ARG"
      [] str = <<"-","u","r","l">> -> "URL_ARG"
      [] OTHER -> ""

DigitValue(ch) ==
    CASE ch = "0" -> 0 [] ch = "1" -> 1 [] ch = "2" -> 2 [] ch = "3" -> 3
      [] ch = "4" -> 4 [] ch = "5" -> 5 [] ch = "6" -> 6 [] ch = "7" -> 7
      [] ch = "8" -> 8 [] ch = "9" -> 9

RECURSIVE DecimalValue(_, _)
DecimalValue(digits, acc) ==
    IF digits = <<>> THEN acc
    ELSE DecimalValue(Tail(digits), 10 * acc + DigitValue(Head(digits)))

\* strconv.Atoi accepts an optional sign, then one or more decimal digits.  (The
\* scripts here are far too short to leave the range of int.)
isDecimal(digits) == digits # <<>> /\ \A i \in 1..Len(digits) : isDigit(digits[i])

Atoi(str) ==
    IF str = <<>> THEN [ok |-> FALSE, n |-> 0]
    ELSE IF Head(str) = "-"
    THEN [ok |-> isDecimal(Tail(str)),
          n  |-> IF isDecimal(Tail(str)) THEN 0 - DecimalValue(Tail(str), 0) ELSE 0]
    ELSE IF Head(str) = "+"
    THEN [ok |-> isDecimal(Tail(str)),
          n  |-> IF isDecimal(Tail(str)) THEN DecimalValue(Tail(str), 0) ELSE 0]
    ELSE [ok |-> isDecimal(str),
          n  |-> IF isDecimal(str) THEN DecimalValue(str, 0) ELSE 0]

\* the loop of scanIdent: buf is the identifier read so far
RECURSIVE scanIdentLoop(_, _)
scanIdentLoop(s, buf) ==
    IF read(s).ch = eof THEN [buf |-> buf, s |-> read(s).s]
    ELSE IF ~isIdentRune(read(s).ch) THEN [buf |-> buf, s |-> unread(read(s).s)]
    ELSE scanIdentLoop(read(s).s, Append(buf, read(s).ch))

\* faulty variant of identToken: an identifier that is no keyword is illegal
identTokenNoInteger(str) ==
    IF keyword(str) # "" THEN newToken(keyword(str), str)
    ELSE newToken("ILLEGAL", str)

\* the end of scanIdent: keyword, integer or illegal
identToken(str) ==
    IF keyword(str) # "" THEN newToken(keyword(str), str)
    ELSE IF Atoi(str).ok THEN newToken("INTEGER", str)
    ELSE newToken("ILLEGAL", str)

\* the token of the identifier run that scanIdentLoop read
identOf(run) == [tok |-> identToken(run.buf), s |-> run.s]

scanIdent(s) == identOf(scanIdentLoop(read(s).s, <<read(s).ch>>))

\* the comment loop of scan: read to the end of the line, or to end of input
RECURSIVE scanComment(_)
scanComment(s) ==
    IF read(s).ch = "\n" THEN read(s)
    ELSE IF read(s).ch = eof THEN read(s)
    ELSE scanComment(read(s).s)

\* the final switch of scan on an individual character
scanChar(ch) ==
    CASE ch = eof -> newToken("EOF", <<>>)
      [] ch = "." -> newToken("DOT", <<ch>>)
      [] ch = "[" -> newToken("OPEN_BRACKET", <<ch>>)
      [] ch = "]" -> newToken("CLOSE_BRACKET", <<ch>>)
      [] ch = "{" -> newToken("OPEN_CURLY", <<ch>>)
      [] ch = "}" -> newToken("CLOSE_CURLY", <<ch>>)
      [] ch = "~" -> newToken("TILDE", <<ch>>)
      [] OTHER -> newToken("ILLEGAL", <<ch>>)

\* scan from the rune r it has just read
scanRune(r) ==
    IF isWhitespace(r.ch) THEN scanWhitespace(unread(r.s))
    ELSE IF isIdentRune(r.ch) THEN scanIdent(unread(r.s))
    ELSE IF r.ch = "\"" THEN scanQuotedString(r.s)
    ELSE IF r.ch = "#"
         THEN IF scanComment(r.s).ch = "\n"
              THEN [tok |-> newToken("HASH", <<"#">>), s |-> scanComment(r.s).s]
              ELSE [tok |-> scanChar(scanComment(r.s).ch), s |-> scanComment(r.s).s]
    ELSE [tok |-> scanChar(r.ch), s |-> r.s]

scan(s) == scanRune(read(s))

\* ScanUseful on the token t that scan returned
RECURSIVE ScanUseful(_)
usefulOrNext(t) ==
    IF t.tok.typ # "WS" /\ t.tok.typ # "HASH" THEN t ELSE ScanUseful(t.s)

ScanUseful(s) == usefulOrNext(scan(s))

-----------------------------------------------------------------------------
(* The values the parsers build *)

\* a header map: make(map[string]string), and the nil map of a zero struct,
\* which reads as an empty map
NoHeaders == [k \in {} |-> <<>>]

\* faulty variant of setHeader: a name already in the map keeps its first value
setHeaderKeepFirst(m, name, value) ==
    IF name \in DOMAIN m THEN m
    ELSE [k \in (DOMAIN m) \cup {name} |-> IF k = name THEN value ELSE m[k]]

\* r.headers[name] = value
setHeader(m, name, value) ==
    [k \in (DOMAIN m) \cup {name} |-> IF k = name THEN value ELSE m[k]]

\* TxResp{}: the zero value
ZeroTxResp == [statusCode |-> 0, headers |-> NoHeaders, body |-> <<>>]

\* TxReq{}: the zero value
ZeroTxReq == [uri |-> <<>>, method |-> <<>>, headers |-> NoHeaders, body |-> <<>>]

\* Expect{}: the zero value (EXPECT_METHOD and ILLEGAL are the iota zeros)
ZeroExpect ==
    [verbatim |-> <<>>, field |-> "EXPECT_METHOD", headerName |-> <<>>,
     operator |-> "ILLEGAL", expected |-> <<>>]

\* var h HandleStanza
ZeroHandleStanza == [URIPath |-> <<>>, Expectations |-> <<>>, Response |-> ZeroTxResp]

\* var c ClientStanza
ZeroClientStanza == [Name |-> <<>>, Request |-> ZeroTxReq, Expectations |-> <<>>]

\* fmt.Errorf(msg, token): the message and the token it names
Errorf(msg, tok) == [msg |-> msg, got |-> tok]

nil == [msg |-> "", got |-> newToken("ILLEGAL", <<>>)]

\* fmt %q of a string: quoted, with quote and backslash escaped
RECURSIVE EscapeRunes(_)
EscapeRunes(str) ==
    IF str = <<>> THEN <<>>
    ELSE (IF Head(str) \in {"\"", "\\"} THEN <<"\\", Head(str)>> ELSE <<Head(str)>>)
         \o EscapeRunes(Tail(str))

Quote(str) == <<"\"">> \o EscapeRunes(str) \o <<"\"">>

\* index of the last ":" of str at or before i, 0 when there is none
RECURSIVE LastIndexColon(_, _)
LastIndexColon(str, i) ==
    IF i < 1 THEN 0
    ELSE IF str[i] = ":" THEN i
    ELSE LastIndexColon(str, i - 1)

\* faulty variant of SplitN: the split is at the last colon
SplitNLast(str) ==
    IF LastIndexColon(str, Len(str)) = 0 THEN <<str>>
    ELSE <<SubSeq(str, 1, LastIndexColon(str, Len(str)) - 1),
           SubSeq(str, LastIndexColon(str, Len(str)) + 1, Len(str))>>

\* index of the first ":" of str at or after i, 0 when there is none
RECURSIVE IndexColon(_, _)
IndexColon(str, i) ==
    IF i > Len(str) THEN 0
    ELSE IF str[i] = ":" THEN i
    ELSE IndexColon(str, i + 1)

\* strings.SplitN(str, ":", 2)
SplitN(str) ==
    LET i == IndexColon(str, 1) IN
    IF i = 0 THEN <<str>>
    ELSE <<SubSeq(str, 1, i - 1), SubSeq(str, i + 1, Len(str))>>

-----------------------------------------------------------------------------
(* tx in a handle stanza: TxResp.Parse *)

\* what TxResp.Parse sets before its loop, on the TxResp{} parseHandle stored
NewTxResp == [ZeroTxResp EXCEPT !.statusCode = 200, !.headers = NoHeaders]

\* the tokens that end the flag loop of a tx command
isTxEnd(tok) == tok.typ = "EOF" \/ tok.typ = "CLOSE_CURLY" \/ tok.typ = "NEWLINE"

\* -header: the argument a, already scanned, applied to the header map m
headerArg(m, a) ==
    IF a.typ # "STRING"
    THEN [e |-> Errorf("Parse error in 'tx' command: expecting a string", a), m |-> m]
    ELSE IF Len(SplitN(a.val)) # 2
    THEN [e |-> Errorf("Parse error in 'tx' command: expecting a header", a), m |-> m]
    ELSE [e |-> nil, m |-> setHeader(m, SplitN(a.val)[1], SplitN(a.val)[2])]

\* faulty variant of txUnknownFlag: a token that is no flag is passed over
txUnknownFlagIgnored(r, msg, t) == [e |-> nil, r |-> r, arg |-> FALSE]

\* the final else of a flag loop: t is no flag of this tx command
txUnknownFlag(r, msg, t) == [e |-> Errorf(msg, t), r |-> r, arg |-> FALSE]

\* one turn of the loop of TxResp.Parse on the flag t and the token a after it:
\* the error (nil if none), the TxResp, and whether a was scanned
TxRespFlag(r, t, a) ==
    IF t.typ = "BODY_ARG"
    THEN IF a.typ # "STRING"
         THEN [e |-> Errorf("Parse error in 'tx' command: expecting a string", a),
               r |-> r, arg |-> TRUE]
         ELSE [e |-> nil, r |-> [r EXCEPT !.body = a.val], arg |-> TRUE]
    ELSE IF t.typ = "HEADER_ARG"
    THEN [e |-> headerArg(r.headers, a).e,
          r |-> [r EXCEPT !.headers = headerArg(r.headers, a).m], arg |-> TRUE]
    ELSE IF t.typ = "STATUS_ARG"
    THEN IF a.typ # "INTEGER"
         THEN [e |-> Errorf("Parse error in 'tx' command: expecting an integer", a),
               r |-> r, arg |-> TRUE]
         ELSE [e |-> nil, r |-> [r EXCEPT !.statusCode = Atoi(a.val).n], arg |-> TRUE]
    ELSE txUnknownFlag(r, "Parse error in 'tx' command: expecting -body, -header, or -status", t)

\* what TxReq.Parse sets before its loop, on the TxReq{} parseClient stored
NewTxReq == [ZeroTxReq EXCEPT !.method = <<"G","E","T">>, !.headers = NoHeaders]

\* faulty variant of TxReqFlag: -status is taken as in a response and dropped
TxReqFlagWithStatus(r, t, a) ==
    IF t.typ = "BODY_ARG"
    THEN IF a.typ # "STRING"
         THEN [e |-> Errorf("Parse error in 'tx' command: expecting a string", a),
               r |-> r, arg |-> TRUE]
         ELSE [e |-> nil, r |-> [r EXCEPT !.body = a.val], arg |-> TRUE]
    ELSE IF t.typ = "HEADER_ARG"
    THEN [e |-> headerArg(r.headers, a).e,
          r |-> [r EXCEPT !.headers = headerArg(r.headers, a).m], arg |-> TRUE]
    ELSE IF t.typ = "METHOD_ARG"
    THEN IF a.typ # "STRING"
         THEN [e |-> Errorf("Parse error in 'tx' command: expecting a string", a),
               r |-> r, arg |-> TRUE]
         ELSE [e |-> nil, r |-> [r EXCEPT !.method = a.val], arg |-> TRUE]
    ELSE IF t.typ = "URL_ARG"
    THEN IF a.typ # "STRING"
         THEN [e |-> Errorf("Parse error in 'tx' command: expecting a string", a),
               r |-> r, arg |-> TRUE]
         ELSE [e |-> nil, r |-> [r EXCEPT !.uri = a.val], arg |-> TRUE]
    ELSE IF t.typ = "STATUS_ARG"
    THEN IF a.typ # "INTEGER"
         THEN [e |-> Errorf("Parse error in 'tx' command: expecting an integer", a),
               r |-> r, arg |-> TRUE]
         ELSE [e |-> nil, r |-> r, arg |-> TRUE]
    ELSE [e |-> Errorf("Parse error in 'tx' command: expecting -url, -header, method, or -body", t),
          r |-> r, arg |-> FALSE]

\* one turn of the loop of TxReq.Parse
TxReqFlag(r, t, a) ==
    IF t.typ = "BODY_ARG"
    THEN IF a.typ # "STRING"
         THEN [e |-> Errorf("Parse error in 'tx' command: expecting a string", a),
               r |-> r, arg |-> TRUE]
         ELSE [e |-> nil, r |-> [r EXCEPT !.body = a.val], arg |-> TRUE]
    ELSE IF t.typ = "HEADER_ARG"
    THEN [e |-> headerArg(r.headers, a).e,
          r |-> [r EXCEPT !.headers = headerArg(r.headers, a).m], arg |-> TRUE]
    ELSE IF t.typ = "METHOD_ARG"
    THEN IF a.typ # "STRING"
         THEN [e |-> Errorf("Parse error in 'tx' command: expecting a string", a),
               r |-> r, arg |-> TRUE]
         ELSE [e |-> nil, r |-> [r EXCEPT !.method = a.val], arg |-> TRUE]
    ELSE IF t.typ = "URL_ARG"
    THEN IF a.typ # "STRING"
         THEN [e |-> Errorf("Parse error in 'tx' command: expecting a string", a),
               r |-> r, arg |-> TRUE]
         ELSE [e |-> nil, r |-> [r EXCEPT !.uri = a.val], arg |-> TRUE]
    ELSE txUnknownFlag(r, "Parse error in 'tx' command: expecting -url, -header, method, or -body", t)

-----------------------------------------------------------------------------
(* Parse: the top-level loop *)

\* faulty variant of noStanza: the final check of Parse left out
noStanzaUnchecked(hl, cl) == FALSE

\* len(h) == 0 && len(c) == 0
noStanza(hl, cl) == Len(hl) = 0 /\ Len(cl) = 0

\* faulty variant of Parse: a stray token at the top level is an error
ParseStrayIsError ==
    /\ pc = "Parse"
    /\ LET t == ScanUseful(sc) IN
       /\ sc' = t.s
       /\ token' = t.tok
       /\ IF t.tok.typ = "EOF"
          THEN /\ IF noStanza(h, c)
                  THEN /\ pc' = "error"
                       /\ err' = Errorf("Parse error: at least one of 'handle' or 'client' stanza are needed", nil.got)
                  ELSE /\ pc' = "done"
                       /\ err' = err
               /\ UNCHANGED <<hs, cs>>
          ELSE IF t.tok.typ = "ILLEGAL"
          THEN /\ pc' = "error"
               /\ err' = Errorf("Parse error", t.tok)
               /\ UNCHANGED <<hs, cs>>
          ELSE IF t.tok.typ = "HANDLE"
          THEN /\ pc' = "parseHandle_URIPath"
               /\ hs' = ZeroHandleStanza
               /\ UNCHANGED <<cs, err>>
          ELSE IF t.tok.typ = "CLIENT"
          THEN /\ pc' = "parseClient_Name"
               /\ cs' = ZeroClientStanza
               /\ UNCHANGED <<hs, err>>
          ELSE /\ pc' = "error"
               /\ err' = Errorf("Parse error", t.tok)
               /\ UNCHANGED <<hs, cs>>
    /\ UNCHANGED <<script, input, ret, h, c, exp>>
    /\ UNCHANGED <<mainVars, scanned>>

Parse ==
    /\ pc = "Parse"
    /\ LET t == ScanUseful(sc) IN
       /\ sc' = t.s
       /\ token' = t.tok
       /\ IF t.tok.typ = "EOF"
          THEN /\ IF noStanza(h, c)
                  THEN /\ pc' = "error"
                       /\ err' = Errorf("Parse error: at least one of 'handle' or 'client' stanza are needed", nil.got)
                  ELSE /\ pc' = "done"
                       /\ err' = err
               /\ UNCHANGED <<hs, cs>>
          ELSE IF t.tok.typ = "ILLEGAL"
          THEN /\ pc' = "error"
               /\ err' = Errorf("Parse error", t.tok)
               /\ UNCHANGED <<hs, cs>>
          ELSE IF t.tok.typ = "HANDLE"
          THEN /\ pc' = "parseHandle_URIPath"
               /\ hs' = ZeroHandleStanza
               /\ UNCHANGED <<cs, err>>
          ELSE IF t.tok.typ = "CLIENT"
          THEN /\ pc' = "parseClient_Name"
               /\ cs' = ZeroClientStanza
               /\ UNCHANGED <<hs, err>>
          ELSE /\ pc' = "Parse"
               /\ UNCHANGED <<hs, cs, err>>
    /\ UNCHANGED <<script, input, ret, h, c, exp>>
    /\ UNCHANGED <<mainVars, scanned>>

-----------------------------------------------------------------------------
(* parseHandle *)

\* token.typ != STRING || token.val[0] != '/': indexing the empty string of an
\* empty STRING token is a run-time panic (index out of range)
parseHandle_URIPath ==
    /\ pc = "parseHandle_URIPath"
    /\ LET t == ScanUseful(sc) IN
       /\ sc' = t.s
       /\ token' = t.tok
       /\ IF t.tok.typ # "STRING"
          THEN /\ pc' = "error"
               /\ err' = Errorf("Parse error in 'handle' stanza: expecting a URI path starting with '/'", t.tok)
               /\ hs' = hs
          ELSE IF t.tok.val = <<>>
          THEN /\ pc' = "panic"
               /\ UNCHANGED <<err, hs>>
          ELSE IF t.tok.val[1] # "/"
          THEN /\ pc' = "error"
               /\ err' = Errorf("Parse error in 'handle' stanza: expecting a URI path starting with '/'", t.tok)
               /\ hs' = hs
          ELSE /\ pc' = "parseHandle_Begin"
               /\ hs' = [hs EXCEPT !.URIPath = t.tok.val]
               /\ err' = err
    /\ UNCHANGED <<script, input, ret, h, c, cs, exp>>
    /\ UNCHANGED <<mainVars, scanned>>

parseHandle_Begin ==
    /\ pc = "parseHandle_Begin"
    /\ LET t == ScanUseful(sc) IN
       /\ sc' = t.s
       /\ token' = t.tok
       /\ IF t.tok.typ # "OPEN_CURLY"
          THEN /\ pc' = "error"
               /\ err' = Errorf("Parse error in 'handle' stanza: expecting '{'", t.tok)
          ELSE /\ pc' = "parseHandle_loop"
               /\ err' = err
    /\ UNCHANGED <<script, input, ret, h, c, hs, cs, exp>>
    /\ UNCHANGED <<mainVars, scanned>>

\* one turn of the for loop of parseHandle, up to the call of a command parser
parseHandle_loop ==
    /\ pc = "parseHandle_loop"
    /\ LET t == ScanUseful(sc) IN
       /\ sc' = t.s
       /\ token' = t.tok
       /\ IF t.tok.typ = "CLOSE_CURLY"
          THEN /\ pc' = "Parse"
               /\ h' = Append(h, hs)
               /\ UNCHANGED <<hs, exp, ret>>
          ELSE IF t.tok.typ = "EXPECT"
          THEN /\ pc' = "Expect_side"
               /\ exp' = ZeroExpect
               /\ ret' = "parseHandle"
               /\ UNCHANGED <<h, hs>>
          ELSE IF t.tok.typ = "TX"
          THEN /\ pc' = "TxResp_Parse"
               /\ hs' = [hs EXCEPT !.Response = NewTxResp]
               /\ UNCHANGED <<h, exp, ret>>
          ELSE /\ pc' = "parseHandle_loop"
               /\ UNCHANGED <<h, hs, exp, ret>>
    /\ UNCHANGED <<script, input, c, cs, err>>
    /\ UNCHANGED <<mainVars, scanned>>

\* faulty variant of TxResp_Parse: the terminator is not pushed back
TxResp_ParseNoUnread ==
    /\ pc = "TxResp_Parse"
    /\ LET t   == ScanUseful(sc)
           a   == ScanUseful(t.s)
           res == TxRespFlag(hs.Response, t.tok, a.tok)
       IN
       IF isTxEnd(t.tok)
       THEN /\ sc' = t.s
            /\ token' = t.tok
            /\ pc' = "parseHandle_afterTx"
            /\ UNCHANGED <<hs, err>>
       ELSE /\ sc' = IF res.arg THEN a.s ELSE t.s
            /\ token' = IF res.arg THEN a.tok ELSE t.tok
            /\ hs' = [hs EXCEPT !.Response = res.r]
            /\ IF res.e = nil
               THEN pc' = "TxResp_Parse" /\ err' = err
               ELSE pc' = "error" /\ err' = res.e
    /\ UNCHANGED <<script, input, ret, h, c, cs, exp>>
    /\ UNCHANGED <<mainVars, scanned>>

\* one turn of the for loop of TxResp.Parse
TxResp_Parse ==
    /\ pc = "TxResp_Parse"
    /\ LET t   == ScanUseful(sc)
           a   == ScanUseful(t.s)
           res == TxRespFlag(hs.Response, t.tok, a.tok)
       IN
       IF isTxEnd(t.tok)
       THEN /\ sc' = unread(t.s)
            /\ token' = t.tok
            /\ pc' = "parseHandle_afterTx"
            /\ UNCHANGED <<hs, err>>
       ELSE /\ sc' = IF res.arg THEN a.s ELSE t.s
            /\ token' = IF res.arg THEN a.tok ELSE t.tok
            /\ hs' = [hs EXCEPT !.Response = res.r]
            /\ IF res.e = nil
               THEN pc' = "TxResp_Parse" /\ err' = err
               ELSE pc' = "error" /\ err' = res.e
    /\ UNCHANGED <<script, input, ret, h, c, cs, exp>>
    /\ UNCHANGED <<mainVars, scanned>>

\* after h.Response.Parse: the next token must close the stanza
parseHandle_afterTx ==
    /\ pc = "parseHandle_afterTx"
    /\ LET t == ScanUseful(sc) IN
       /\ sc' = t.s
       /\ token' = t.tok
       /\ IF t.tok.typ # "CLOSE_CURLY"
          THEN /\ pc' = "error"
               /\ err' = Errorf("Parse error in 'handle' stanza: expecting '}' after 'tx' command", t.tok)
               /\ h' = h
          ELSE /\ pc' = "Parse"
               /\ h' = Append(h, hs)
               /\ err' = err
    /\ UNCHANGED <<script, input, ret, c, hs, cs, exp>>
    /\ UNCHANGED <<mainVars, scanned>>

-----------------------------------------------------------------------------
(* parseClient *)

parseClient_Name ==
    /\ pc = "parseClient_Name"
    /\ LET t == ScanUseful(sc) IN
       /\ sc' = t.s
       /\ token' = t.tok
       /\ IF t.tok.typ # "STRING"
          THEN /\ pc' = "error"
               /\ err' = Errorf("Parse error in 'client' stanza: expecting a name for the client", t.tok)
               /\ cs' = cs
          ELSE /\ pc' = "parseClient_Begin"
               /\ cs' = [cs EXCEPT !.Name = t.tok.val]
               /\ err' = err
    /\ UNCHANGED <<script, input, ret, h, c, hs, exp>>
    /\ UNCHANGED <<mainVars, scanned>>

parseClient_Begin ==
    /\ pc = "parseClient_Begin"
    /\ LET t == ScanUseful(sc) IN
       /\ sc' = t.s
       /\ token' = t.tok
       /\ IF t.tok.typ # "OPEN_CURLY"
          THEN /\ pc' = "error"
               /\ err' = Errorf("Parse error in 'client' stanza: expecting '{'", t.tok)
          ELSE /\ pc' = "parseClient_loop"
               /\ err' = err
    /\ UNCHANGED <<script, input, ret, h, c, hs, cs, exp>>
    /\ UNCHANGED <<mainVars, scanned>>

\* one turn of the for loop of parseClient, up to the call of a command parser
parseClient_loop ==
    /\ pc = "parseClient_loop"
    /\ LET t == ScanUseful(sc) IN
       /\ sc' = t.s
       /\ token' = t.tok
       /\ IF t.tok.typ = "CLOSE_CURLY"
          THEN /\ pc' = "Parse"
               /\ c' = Append(c, cs)
               /\ UNCHANGED <<cs, exp, ret>>
          ELSE IF t.tok.typ = "TX"
          THEN /\ pc' = "TxReq_Parse"
               /\ cs' = [cs EXCEPT !.Request = NewTxReq]
               /\ UNCHANGED <<c, exp, ret>>
          ELSE IF t.tok.typ = "EXPECT"
          THEN /\ pc' = "Expect_side"
               /\ exp' = ZeroExpect
               /\ ret' = "parseClient"
               /\ UNCHANGED <<c, cs>>
          ELSE /\ pc' = "parseClient_loop"
               /\ UNCHANGED <<c, cs, exp, ret>>
    /\ UNCHANGED <<script, input, h, hs, err>>
    /\ UNCHANGED <<mainVars, scanned>>

\* one turn of the for loop of TxReq.Parse
TxReq_Parse ==
    /\ pc = "TxReq_Parse"
    /\ LET t   == ScanUseful(sc)
           a   == ScanUseful(t.s)
           res == TxReqFlag(cs.Request, t.tok, a.tok)
       IN
       IF isTxEnd(t.tok)
       THEN /\ sc' = unread(t.s)
            /\ token' = t.tok
            /\ pc' = "parseClient_loop"
            /\ UNCHANGED <<cs, err>>
       ELSE /\ sc' = IF res.arg THEN a.s ELSE t.s
            /\ token' = IF res.arg THEN a.tok ELSE t.tok
            /\ cs' = [cs EXCEPT !.Request = res.r]
            /\ IF res.e = nil
               THEN pc' = "TxReq_Parse" /\ err' = err
               ELSE pc' = "error" /\ err' = res.e
    /\ UNCHANGED <<script, input, ret, h, c, hs, exp>>
    /\ UNCHANGED <<mainVars, scanned>>

-----------------------------------------------------------------------------
(* expect: Expect.Parse, one action per token it scans *)

\* e.verbatim += token.val
verbatimAdd(e, tok) == [e EXCEPT !.verbatim = @ \o tok.val]

\* 'req' or 'resp'
Expect_side ==
    /\ pc = "Expect_side"
    /\ LET t == ScanUseful(sc) IN
       /\ sc' = t.s
       /\ token' = t.tok
       /\ exp' = [exp EXCEPT !.verbatim = t.tok.val]
       /\ IF t.tok.typ # "REQ" /\ t.tok.typ # "RESP"
          THEN /\ pc' = "error"
               /\ err' = Errorf("Parse error in 'expect' command: expecting {req,resp}", t.tok)
          ELSE /\ pc' = "Expect_dot"
               /\ err' = err
    /\ UNCHANGED <<script, input, ret, h, c, hs, cs>>
    /\ UNCHANGED <<mainVars, scanned>>

Expect_dot ==
    /\ pc = "Expect_dot"
    /\ LET t == ScanUseful(sc) IN
       /\ sc' = t.s
       /\ token' = t.tok
       /\ exp' = verbatimAdd(exp, t.tok)
       /\ IF t.tok.typ # "DOT"
          THEN /\ pc' = "error"
               /\ err' = Errorf("Parse error in 'expect' command: expecting something like 'req.method'", t.tok)
          ELSE /\ pc' = "Expect_field"
               /\ err' = err
    /\ UNCHANGED <<script, input, ret, h, c, hs, cs>>
    /\ UNCHANGED <<mainVars, scanned>>

\* the field an expect names
expectField(tok) ==
    CASE tok.typ = "METHOD" -> "EXPECT_METHOD"
      [] tok.typ = "STATUS" -> "EXPECT_STATUS"
      [] tok.typ = "BODY" -> "EXPECT_BODY"
      [] tok.typ = "HEADERS" -> "EXPECT_HEADERS"
      [] OTHER -> ""

Expect_field ==
    /\ pc = "Expect_field"
    /\ LET t == ScanUseful(sc) IN
       /\ sc' = t.s
       /\ token' = t.tok
       /\ IF expectField(t.tok) = ""
          THEN /\ pc' = "error"
               /\ err' = Errorf("Parse error in 'expect' command: expecting 'req.{method,headers,body}'", t.tok)
               /\ exp' = verbatimAdd(exp, t.tok)
          ELSE /\ pc' = IF t.tok.typ = "HEADERS" THEN "Expect_openBracket" ELSE "Expect_operator"
               /\ exp' = [verbatimAdd(exp, t.tok) EXCEPT !.field = expectField(t.tok)]
               /\ err' = err
    /\ UNCHANGED <<script, input, ret, h, c, hs, cs>>
    /\ UNCHANGED <<mainVars, scanned>>

Expect_openBracket ==
    /\ pc = "Expect_openBracket"
    /\ LET t == ScanUseful(sc) IN
       /\ sc' = t.s
       /\ token' = t.tok
       /\ exp' = verbatimAdd(exp, t.tok)
       /\ IF t.tok.typ # "OPEN_BRACKET"
          THEN /\ pc' = "error"
               /\ err' = Errorf("Parse error in 'expect' command: expecting 'req.headers[$hdr_name]'", t.tok)
          ELSE /\ pc' = "Expect_headerName"
               /\ err' = err
    /\ UNCHANGED <<script, input, ret, h, c, hs, cs>>
    /\ UNCHANGED <<mainVars, scanned>>

Expect_headerName ==
    /\ pc = "Expect_headerName"
    /\ LET t == ScanUseful(sc) IN
       /\ sc' = t.s
       /\ token' = t.tok
       /\ IF t.tok.typ # "STRING"
          THEN /\ pc' = "error"
               /\ err' = Errorf("Parse error in 'expect' command: expecting 'req.headers[$hdr_name]'", t.tok)
               /\ exp' = verbatimAdd(exp, t.tok)
          ELSE /\ pc' = "Expect_closeBracket"
               /\ exp' = [verbatimAdd(exp, t.tok) EXCEPT !.headerName = t.tok.val]
               /\ err' = err
    /\ UNCHANGED <<script, input, ret, h, c, hs, cs>>
    /\ UNCHANGED <<mainVars, scanned>>

Expect_closeBracket ==
    /\ pc = "Expect_closeBracket"
    /\ LET t == ScanUseful(sc) IN
       /\ sc' = t.s
       /\ token' = t.tok
       /\ exp' = verbatimAdd(exp, t.tok)
       /\ IF t.tok.typ # "CLOSE_BRACKET"
          THEN /\ pc' = "error"
               /\ err' = Errorf("Parse error in 'expect' command: expecting 'req.headers[$hdr_name]'", t.tok)
          ELSE /\ pc' = "Expect_operator"
               /\ err' = err
    /\ UNCHANGED <<script, input, ret, h, c, hs, cs>>
    /\ UNCHANGED <<mainVars, scanned>>

Expect_operator ==
    /\ pc = "Expect_operator"
    /\ LET t == ScanUseful(sc) IN
       /\ sc' = t.s
       /\ token' = t.tok
       /\ IF t.tok.typ # "EQUAL" /\ t.tok.typ # "NOTEQUAL" /\ t.tok.typ # "TILDE"
          THEN /\ pc' = "error"
               /\ err' = Errorf("Parse error in 'expect' command: expecting operator to be '{eq,ne,~}'", t.tok)
               /\ exp' = [exp EXCEPT !.verbatim = @ \o <<" ">> \o t.tok.val]
          ELSE /\ pc' = "Expect_value"
               /\ exp' = [exp EXCEPT !.verbatim = @ \o <<" ">> \o t.tok.val,
                                     !.operator = t.tok.typ]
               /\ err' = err
    /\ UNCHANGED <<script, input, ret, h, c, hs, cs>>
    /\ UNCHANGED <<mainVars, scanned>>

\* faulty variant of appendExpect: the new Expect goes to the front
appendExpectFront(stanza, e) == [stanza EXCEPT !.Expectations = <<e>> \o @]

\* h.Expectations = append(h.Expectations, exp), and the same for a client
appendExpect(stanza, e) == [stanza EXCEPT !.Expectations = Append(@, e)]

\* the value, and the return to the stanza parser that appends the Expect
Expect_value ==
    /\ pc = "Expect_value"
    /\ LET t    == ScanUseful(sc)
           said == [exp EXCEPT !.verbatim = @ \o <<" ">> \o Quote(t.tok.val)]
           e    == [said EXCEPT !.expected = t.tok.val]
       IN
       /\ sc' = t.s
       /\ token' = t.tok
       /\ IF t.tok.typ # "STRING" /\ t.tok.typ # "INTEGER"
          THEN /\ pc' = "error"
               /\ err' = Errorf("Parse error in 'expect' command: expecting a string/integer", t.tok)
               /\ exp' = said
               /\ UNCHANGED <<hs, cs>>
          ELSE /\ exp' = e
               /\ err' = err
               /\ IF ret = "parseHandle"
                  THEN /\ pc' = "parseHandle_loop"
                       /\ hs' = appendExpect(hs, e)
                       /\ cs' = cs
                  ELSE /\ pc' = "parseClient_loop"
                       /\ cs' = appendExpect(cs, e)
                       /\ hs' = hs
    /\ UNCHANGED <<script, input, ret, h, c>>
    /\ UNCHANGED <<mainVars, scanned>>

-----------------------------------------------------------------------------
(* net/http values as the commands use them.  A body is a stream: data is  *)
(* what it holds and read says that ioutil.ReadAll has drained it.  A      *)
(* Header maps a canonical key to the list of its values.                  *)

NoBody == [data |-> <<>>, read |-> FALSE]

NoRequest == [Method |-> <<>>, Path |-> <<>>, Header |-> NoHeaders, Body |-> NoBody]

NoResponse == [StatusCode |-> 0, Header |-> NoHeaders, Body |-> NoBody]

\* a ResponseWriter nothing was written to
NoWriter == [code |-> 0, header |-> NoHeaders, body |-> <<>>]

Lowers ==
    <<"a","b","c","d","e","f","g","h","i","j","k","l","m",
      "n","o","p","q","r","s","t","u","v","w","x","y","z">>

Uppers ==
    <<"A","B","C","D","E","F","G","H","I","J","K","L","M",
      "N","O","P","Q","R","S","T","U","V","W","X","Y","Z">>

ToUpper(ch) ==
    IF \E i \in 1..Len(Lowers) : Lowers[i] = ch
    THEN Uppers[CHOOSE i \in 1..Len(Lowers) : Lowers[i] = ch]
    ELSE ch

ToLower(ch) ==
    IF \E i \in 1..Len(Uppers) : Uppers[i] = ch
    THEN Lowers[CHOOSE i \in 1..Len(Uppers) : Uppers[i] = ch]
    ELSE ch

\* the bytes a header field name may hold (textproto: validHeaderFieldByte;
\* the backquote, which no script of the model uses, is left out)
isTokenRune(ch) ==
    \/ isLetter(ch)
    \/ isDigit(ch)
    \/ ch \in {"!", "#", "$", "%", "&", "'", "*", "+", "-", ".", "^", "_", "|", "~"}

\* textproto.CanonicalMIMEHeaderKey: the first letter and every letter after
\* a '-' in upper case, the others in lower case; a key holding a byte that
\* is no token byte is left as it is
CanonicalMIMEHeaderKey(key) ==
    IF \E i \in 1..Len(key) : ~isTokenRune(key[i]) THEN key
    ELSE [i \in 1..Len(key) |->
            IF i = 1 \/ key[i - 1] = "-" THEN ToUpper(key[i]) ELSE ToLower(key[i])]

\* http.Header.Get: the first value of the key, "" when there is none
HeaderGet(hdr, key) ==
    IF CanonicalMIMEHeaderKey(key) \in DOMAIN hdr
    THEN hdr[CanonicalMIMEHeaderKey(key)][1]
    ELSE <<>>

\* http.Header.Add: one more value for the key
HeaderAdd(hdr, key, value) ==
    [k \in (DOMAIN hdr) \cup {CanonicalMIMEHeaderKey(key)} |->
        IF k = CanonicalMIMEHeaderKey(key)
        THEN (IF k \in DOMAIN hdr THEN hdr[k] ELSE <<>>) \o <<value>>
        ELSE hdr[k]]

\* the orders in which a range over a map with these keys may visit them
Orders(keys) ==
    {o \in [1..Cardinality(keys) -> keys] :
        \A i, j \in 1..Cardinality(keys) : o[i] = o[j] => i = j}

\* for key, value := range m { hdr.Add(key, value) }, the keys visited in order o
RECURSIVE AddAll(_, _, _)
AddAll(hdr, m, o) ==
    IF o = <<>> THEN hdr
    ELSE AddAll(HeaderAdd(hdr, Head(o), m[Head(o)]), m, Tail(o))

\* ioutil.ReadAll(body): what is left of the stream
ReadAll(body) == IF body.read THEN <<>> ELSE body.data

\* the stream after ioutil.ReadAll
Drained(body) == [body EXCEPT !.read = TRUE]

\* strconv.Itoa of a natural number
RECURSIVE Itoa(_)
Itoa(n) ==
    IF n < 10 THEN <<CHOOSE d \in Digit : DigitValue(d) = n>>
    ELSE Itoa(n \div 10) \o <<CHOOSE d \in Digit : DigitValue(d) = n % 10>>

-----------------------------------------------------------------------------
(* fmt and regexp, as far as the commands use them *)

\* the flags, width and precision that may stand between '%' and the verb
isFmtFlag(ch) == ch \in {"#", "0", "+", "-", " ", "."} \/ isDigit(ch)

RECURSIVE skipFmtFlags(_)
skipFmtFlags(str) ==
    IF str # <<>> /\ isFmtFlag(Head(str)) THEN skipFmtFlags(Tail(str)) ELSE str

\* what follows a '%' of a format printed without operands: rest is the
\* format after the flags
RECURSIVE Sprintf(_)
fmtVerb(rest) ==
    IF rest = <<>> THEN <<"%","!","(","N","O","V","E","R","B",")">>
    ELSE IF Head(rest) = "%" THEN <<"%">> \o Sprintf(Tail(rest))
    ELSE <<"%","!">> \o <<Head(rest)>> \o <<"(","M","I","S","S","I","N","G",")">> \o Sprintf(Tail(rest))

\* fmt.Fprintf(w, format) with no operand: the text written
Sprintf(format) ==
    IF format = <<>> THEN <<>>
    ELSE IF Head(format) = "%" THEN fmtVerb(skipFmtFlags(Tail(format)))
    ELSE <<Head(format)>> \o Sprintf(Tail(format))

\* regexp.Compile fails: a repetition without argument, a nested repetition,
\* an unclosed or unopened group, an unclosed class, a trailing backslash
RECURSIVE parenDepthBad(_, _)
parenDepthBad(pat, depth) ==
    IF pat = <<>> THEN depth # 0
    ELSE IF Head(pat) = "(" THEN parenDepthBad(Tail(pat), depth + 1)
    ELSE IF Head(pat) = ")" THEN depth = 0 \/ parenDepthBad(Tail(pat), depth - 1)
    ELSE parenDepthBad(Tail(pat), depth)

regexpCompileError(pat) ==
    \/ pat # <<>> /\ Head(pat) \in {"*", "+", "?"}
    \/ \E i \in 2..Len(pat) : pat[i] = "*" /\ pat[i - 1] = "*"
    \/ parenDepthBad(pat, 0)
    \/ (\E i \in 1..Len(pat) : pat[i] = "[") /\ ~(\E i \in 1..Len(pat) : pat[i] = "]")
    \/ pat # <<>> /\ pat[Len(pat)] = "\\"

\* one rune of the text against one rune of the pattern ('.' is any rune but
\* a line break)
matchRune(p, ch) == IF p = "." THEN ch # "\n" ELSE p = ch

\* the pattern re matches at the beginning of text.  Patterns are made of
\* literal runes, '.', 'x*', a leading '^' and a trailing '$'
RECURSIVE matchHere(_, _)
matchHere(re, text) ==
    IF re = <<>> THEN TRUE
    ELSE IF Len(re) >= 2 /\ re[2] = "*"
    THEN \E k \in 0..Len(text) :
            /\ \A j \in 1..k : matchRune(re[1], text[j])
            /\ matchHere(SubSeq(re, 3, Len(re)), SubSeq(text, k + 1, Len(text)))
    ELSE IF re = <<"$">> THEN text = <<>>
    ELSE IF text # <<>> /\ matchRune(re[1], text[1])
    THEN matchHere(Tail(re), Tail(text))
    ELSE FALSE

\* regexp.Match(pattern, text) for a pattern that compiles: the pattern
\* matches somewhere in the text
regexpMatch(pat, text) ==
    IF pat # <<>> /\ Head(pat) = "^" THEN matchHere(Tail(pat), text)
    ELSE \E i \in 0..Len(text) : matchHere(pat, SubSeq(text, i + 1, Len(text)))

-----------------------------------------------------------------------------
(* The evaluation of an Expect.  A call ends in a value, in a panic        *)
(* (log.Panic) or in the end of the process (log.Fatal).                   *)

\* faulty variant of expectThing: ne compares as eq does
expectThingNeAsEq(e, actual) ==
    IF e.operator = "EQUAL" THEN IF e.expected = actual THEN "true" ELSE "false"
    ELSE IF e.operator = "NOTEQUAL" THEN IF e.expected = actual THEN "true" ELSE "false"
    ELSE IF e.operator = "TILDE"
    THEN IF regexpCompileError(e.expected) THEN "panic"
         ELSE IF regexpMatch(e.expected, actual) THEN "true" ELSE "false"
    ELSE "panic"

\* faulty variant of expectThing: a pattern that does not compile matches nothing
expectThingNoPanic(e, actual) ==
    IF e.operator = "EQUAL" THEN IF e.expected = actual THEN "true" ELSE "false"
    ELSE IF e.operator = "NOTEQUAL" THEN IF e.expected # actual THEN "true" ELSE "false"
    ELSE IF e.operator = "TILDE"
    THEN IF regexpCompileError(e.expected) THEN "false"
         ELSE IF regexpMatch(e.expected, actual) THEN "true" ELSE "false"
    ELSE "false"

\* faulty variant of expectThing: eq compares the text of the command
expectThingVerbatim(e, actual) ==
    IF e.operator = "EQUAL" THEN IF e.verbatim = actual THEN "true" ELSE "false"
    ELSE IF e.operator = "NOTEQUAL" THEN IF e.expected # actual THEN "true" ELSE "false"
    ELSE IF e.operator = "TILDE"
    THEN IF regexpCompileError(e.expected) THEN "panic"
         ELSE IF regexpMatch(e.expected, actual) THEN "true" ELSE "false"
    ELSE "panic"

\* Expect.expectThing: "true", "false" or "panic"
expectThing(e, actual) ==
    IF e.operator = "EQUAL" THEN IF e.expected = actual THEN "true" ELSE "false"
    ELSE IF e.operator = "NOTEQUAL" THEN IF e.expected # actual THEN "true" ELSE "false"
    ELSE IF e.operator = "TILDE"
    THEN IF regexpCompileError(e.expected) THEN "panic"
         ELSE IF regexpMatch(e.expected, actual) THEN "true" ELSE "false"
    ELSE "panic"

\* faulty variant of ActualRequest: the status of a request reads as ""
ActualRequestNoFatal(e, r) ==
    IF e.field = "EXPECT_METHOD" THEN [out |-> "value", val |-> r.Method, msg |-> r]
    ELSE IF e.field = "EXPECT_HEADERS"
    THEN [out |-> "value", val |-> HeaderGet(r.Header, e.headerName), msg |-> r]
    ELSE IF e.field = "EXPECT_BODY"
    THEN [out |-> "value", val |-> ReadAll(r.Body), msg |-> [r EXCEPT !.Body = Drained(@)]]
    ELSE [out |-> "value", val |-> <<>>, msg |-> r]

\* Expect.ActualRequest: the value read off the request and the request
\* after the call, or the end of the process for a status
ActualRequest(e, r) ==
    IF e.field = "EXPECT_METHOD" THEN [out |-> "value", val |-> r.Method, msg |-> r]
    ELSE IF e.field = "EXPECT_HEADERS"
    THEN [out |-> "value", val |-> HeaderGet(r.Header, e.headerName), msg |-> r]
    ELSE IF e.field = "EXPECT_BODY"
    THEN [out |-> "value", val |-> ReadAll(r.Body), msg |-> [r EXCEPT !.Body = Drained(@)]]
    ELSE [out |-> "fatal", val |-> <<>>, msg |-> r]

\* the verdict on a value that Actual... returned
verdictOf(e, a) ==
    [out |-> IF a.out = "fatal" THEN "fatal" ELSE expectThing(e, a.val),
     val |-> a.val, msg |-> a.msg]

\* Expect.Request
Request(e, r) == verdictOf(e, ActualRequest(e, r))

\* Expect.ActualResponse: no case for the method, which leaves actual empty
ActualResponse(e, r) ==
    IF e.field = "EXPECT_STATUS"
    THEN [out |-> "value", val |-> Itoa(r.StatusCode), msg |-> r]
    ELSE IF e.field = "EXPECT_HEADERS"
    THEN [out |-> "value", val |-> HeaderGet(r.Header, e.headerName), msg |-> r]
    ELSE IF e.field = "EXPECT_BODY"
    THEN [out |-> "value", val |-> ReadAll(r.Body), msg |-> [r EXCEPT !.Body = Drained(@)]]
    ELSE [out |-> "value", val |-> <<>>, msg |-> r]

\* Expect.Response
Response(e, r) == verdictOf(e, ActualResponse(e, r))

\* net/http checkWriteHeaderCode: WriteHeader panics outside 100..999
validStatus(code) == code >= 100 /\ code <= 999

\* net/http bodyAllowedForStatus: the server drops the body of these
bodyAllowedForStatus(code) == ~(code >= 100 /\ code <= 199) /\ code # 204 /\ code # 304

\* TxResp.Send on a fresh writer, range visiting the headers in order o:
\* what the writer holds afterwards, or the panic of WriteHeader
Send(r, o) ==
    IF ~validStatus(r.statusCode)
    THEN [out |-> "panic", w |-> NoWriter]
    ELSE [out |-> "value",
          w |-> [code |-> r.statusCode,
                 header |-> AddAll(NoHeaders, r.headers, o),
                 body |-> IF bodyAllowedForStatus(r.statusCode)
                          THEN Sprintf(r.body) ELSE <<>>]]

-----------------------------------------------------------------------------
(* main: the handlers, the clients, the exit.  The proxy and the network   *)
(* are the environment: a request reaches the origin as it was built or    *)
(* the transport fails; headers the HTTP library or the proxy add are left *)
(* out.                                                                    *)

\* textproto reads a header value without the blanks around it
RECURSIVE TrimLeft(_)
TrimLeft(str) ==
    IF str # <<>> /\ Head(str) \in {" ", "\t"} THEN TrimLeft(Tail(str)) ELSE str

RECURSIVE TrimRight(_)
TrimRight(str) ==
    IF str # <<>> /\ str[Len(str)] \in {" ", "\t"}
    THEN TrimRight(SubSeq(str, 1, Len(str) - 1)) ELSE str

TrimSpace(str) == TrimRight(TrimLeft(str))

\* a Header as the other end of the connection reads it
OnWire(hdr) == [k \in DOMAIN hdr |-> [i \in 1..Len(hdr[k]) |-> TrimSpace(hdr[k][i])]]

\* fmt.Errorf("FAILED: %s (actual=%q)", exp, actual), exp printed by Expect.String
Failed(e, actual) ==
    <<"F","A","I","L","E","D",":"," ">> \o Quote(e.verbatim) \o <<" ","(","a","c","t","u","a","l","=">> \o Quote(actual) \o <<")">>

\* http.NewRequest(r.method, "http://" + server + r.uri, body) fails: the uri
\* runs into the port of the server
badURL(r) == r.uri # <<>> /\ Head(r.uri) # "/"

\* the request TxReq.Send builds, its headers added in order o, as the origin
\* receives it
NewRequest(r, o) ==
    [Method |-> IF r.method = <<>> THEN <<"G","E","T">> ELSE r.method,
     Path   |-> IF r.uri = <<>> THEN <<"/">> ELSE r.uri,
     Header |-> OnWire(AddAll(NoHeaders, r.headers, o)),
     Body   |-> [data |-> r.body, read |-> FALSE]]

\* the *http.Response the client gets for what the handler wrote
ResponseOf(w) ==
    [StatusCode |-> w.code, Header |-> OnWire(w.header),
     Body |-> [data |-> w.body, read |-> FALSE]]

\* http.NotFound, the answer of the ServeMux without a handler for the path
NotFound == [code |-> 404, header |-> NoHeaders, body |-> <<"4","0","4"," ","p","a","g","e"," ","n","o","t"," ","f","o","u","n","d","\n">>]

\* the answer of the proxy when the origin closes the connection: the HTTP
\* server recovers the panic of a handler and drops the connection
BadGateway == [code |-> 502, header |-> NoHeaders, body |-> <<>>]

\* the patterns of mux that match path: the path itself, or a pattern ending
\* in "/" that begins the path
muxMatches(path) ==
    {i \in 1..Len(mux) :
        \/ mux[i].URIPath = path
        \/ /\ mux[i].URIPath[Len(mux[i].URIPath)] = "/"
           /\ Len(mux[i].URIPath) <= Len(path)
           /\ SubSeq(path, 1, Len(mux[i].URIPath)) = mux[i].URIPath}

\* ServeMux: the longest matching pattern serves
muxHandler(path) ==
    CHOOSE i \in muxMatches(path) :
        \A j \in muxMatches(path) : Len(mux[j].URIPath) <= Len(mux[i].URIPath)

\* an entry of the history of evaluations
Eval(side, e, v, full) ==
    [side |-> side, e |-> e, out |-> v.out, actual |-> v.val, body |-> full]

\* log.Fatal(err) after Parse, or the panic of parseHandle on handle ""
main_ParseFailed ==
    /\ pc \in {"error", "panic"}
    /\ exit = -1
    /\ exit' = IF pc = "error" THEN 1 ELSE 2
    /\ pc' = "exited"
    /\ UNCHANGED <<script, input, sc, token, ret, h, c, hs, cs, exp, err>>
    /\ UNCHANGED conns
    /\ UNCHANGED <<mux, origin, proxy, ci, ei, hi, req, writer, resp, logged, evals, scanned>>

\* for _, hs := range h { origin.addHandler(hs) }: one turn; http.HandleFunc
\* panics on a pattern that is registered already
main_addHandler ==
    /\ pc = "done"
    /\ Len(mux) < Len(h)
    /\ IF \E i \in 1..Len(mux) : mux[i].URIPath = h[Len(mux) + 1].URIPath
       THEN /\ exit' = 2
            /\ pc' = "exited"
            /\ mux' = mux
       ELSE /\ mux' = Append(mux, h[Len(mux) + 1])
            /\ UNCHANGED <<exit, pc>>
    /\ UNCHANGED <<script, input, sc, token, ret, h, c, hs, cs, exp, err>>
    /\ UNCHANGED conns
    /\ UNCHANGED <<origin, proxy, ci, ei, hi, req, writer, resp, logged, evals, scanned>>

\* the handlers are registered: on to the clients
main_clients ==
    /\ pc = "done"
    /\ Len(mux) = Len(h)
    /\ pc' = "main_clients"
    /\ ci' = 1
    /\ UNCHANGED <<script, input, sc, token, ret, h, c, hs, cs, exp, err>>
    /\ UNCHANGED conns
    /\ UNCHANGED <<mux, origin, proxy, ei, hi, req, writer, resp, exit, logged, evals, scanned>>

\* resp, err := cs.Request.Send(addr): the transport fails (log.Fatal), or
\* the request reaches the origin, where the handler of its path starts to
\* serve it, or the ServeMux answers 404
main_Send ==
    /\ pc = "main_clients"
    /\ ci <= Len(c)
    /\ \E failure \in BOOLEAN : \E o \in Orders(DOMAIN c[ci].Request.headers) :
        IF failure \/ badURL(c[ci].Request)
        THEN /\ exit' = 1
             /\ pc' = "exited"
             /\ UNCHANGED <<ei, hi, req, resp>>
        ELSE IF muxMatches(NewRequest(c[ci].Request, o).Path) = {}
        THEN /\ resp' = ResponseOf(NotFound)
             /\ pc' = "main_expect"
             /\ ei' = 1
             /\ UNCHANGED <<exit, hi, req>>
        ELSE /\ req' = NewRequest(c[ci].Request, o)
             /\ hi' = muxHandler(NewRequest(c[ci].Request, o).Path)
             /\ pc' = "handler_expect"
             /\ ei' = 1
             /\ UNCHANGED <<exit, resp>>
    /\ UNCHANGED <<script, input, sc, token, ret, h, c, hs, cs, exp, err>>
    /\ UNCHANGED conns
    /\ UNCHANGED <<mux, origin, proxy, ci, writer, logged, evals, scanned>>

\* the handler closure, one turn of its loop over hs.Expectations:
\* exp.Request(*req), and on false the error with exp.ActualRequest(*req)
handler_expect ==
    /\ pc = "handler_expect"
    /\ ei <= Len(mux[hi].Expectations)
    /\ LET e == mux[hi].Expectations[ei]
           v == Request(e, req)
           a == ActualRequest(e, v.msg)
       IN
       /\ IF v.out = "fatal"
          THEN /\ exit' = 1
               /\ pc' = "exited"
               /\ evals' = Append(evals, Eval("req", e, v, req.Body.data))
               /\ UNCHANGED <<origin, ei, req, resp>>
          ELSE IF v.out = "panic"
          THEN /\ resp' = ResponseOf(BadGateway)
               /\ pc' = "main_expect"
               /\ ei' = 1
               /\ req' = v.msg
               /\ evals' = Append(evals, Eval("req", e, v, req.Body.data))
               /\ UNCHANGED <<origin, exit>>
          ELSE IF v.out = "true"
          THEN /\ req' = v.msg
               /\ ei' = ei + 1
               /\ evals' = Append(evals, Eval("req", e, v, req.Body.data))
               /\ UNCHANGED <<origin, exit, pc, resp>>
          ELSE /\ req' = a.msg
               /\ ei' = ei + 1
               /\ origin' = [origin EXCEPT !.errors = Append(@, Failed(e, a.val))]
               /\ evals' = evals \o <<Eval("req", e, v, req.Body.data),
                                      Eval("req", e, [a EXCEPT !.out = "actual"], req.Body.data)>>
               /\ UNCHANGED <<exit, pc, resp>>
    /\ UNCHANGED <<script, input, sc, token, ret, h, c, hs, cs, exp, err>>
    /\ UNCHANGED conns
    /\ UNCHANGED <<mux, proxy, ci, hi, writer, logged, scanned>>

\* the handler closure after its loop: hs.Response.Send(w), and the response
\* on its way back to the client
handler_Send ==
    /\ pc = "handler_expect"
    /\ ei > Len(mux[hi].Expectations)
    /\ \E o \in Orders(DOMAIN mux[hi].Response.headers) :
        /\ writer' = Send(mux[hi].Response, o).w
        /\ resp' = IF Send(mux[hi].Response, o).out = "panic"
                   THEN ResponseOf(BadGateway)
                   ELSE ResponseOf(Send(mux[hi].Response, o).w)
    /\ pc' = "main_expect"
    /\ ei' = 1
    /\ UNCHANGED <<script, input, sc, token, ret, h, c, hs, cs, exp, err>>
    /\ UNCHANGED conns
    /\ UNCHANGED <<mux, origin, proxy, ci, hi, req, exit, logged, evals, scanned>>

\* main, one turn of the loop over cs.Expectations: exp.Response(*resp), and
\* on false proxy.stop() and log.Fatalf with exp.ActualResponse(*resp)
main_expect ==
    /\ pc = "main_expect"
    /\ ei <= Len(c[ci].Expectations)
    /\ LET e == c[ci].Expectations[ei]
           v == Response(e, resp)
           a == ActualResponse(e, v.msg)
       IN
       /\ IF v.out = "panic"
          THEN /\ exit' = 2
               /\ pc' = "exited"
               /\ resp' = v.msg
               /\ evals' = Append(evals, Eval("resp", e, v, resp.Body.data))
               /\ UNCHANGED <<proxy, ei, logged>>
          ELSE IF v.out = "true"
          THEN /\ resp' = v.msg
               /\ ei' = ei + 1
               /\ evals' = Append(evals, Eval("resp", e, v, resp.Body.data))
               /\ UNCHANGED <<proxy, exit, pc, logged>>
          ELSE /\ resp' = a.msg
               /\ proxy' = "stopped"
               /\ logged' = Failed(e, a.val)
               /\ exit' = 1
               /\ pc' = "exited"
               /\ evals' = evals \o <<Eval("resp", e, v, resp.Body.data),
                                      Eval("resp", e, [a EXCEPT !.out = "actual"], resp.Body.data)>>
               /\ ei' = ei
    /\ UNCHANGED <<script, input, sc, token, ret, h, c, hs, cs, exp, err>>
    /\ UNCHANGED conns
    /\ UNCHANGED <<mux, origin, ci, hi, req, writer, scanned>>

\* the Expects of this client held: the next client
main_nextClient ==
    /\ pc = "main_expect"
    /\ ei > Len(c[ci].Expectations)
    /\ ci' = ci + 1
    /\ pc' = "main_clients"
    /\ UNCHANGED <<script, input, sc, token, ret, h, c, hs, cs, exp, err>>
    /\ UNCHANGED conns
    /\ UNCHANGED <<mux, origin, proxy, ei, hi, req, writer, resp, exit, logged, evals, scanned>>

\* after the clients: proxy.stop(), log.Fatal(origin.errors[0]) if a handler
\* recorded a failure, else proxy.cleanup() and os.Exit(0)
main_exit ==
    /\ pc = "main_clients"
    /\ ci > Len(c)
    /\ proxy' = "stopped"
    /\ IF Len(origin.errors) > 0
       THEN logged' = origin.errors[1] /\ exit' = 1
       ELSE logged' = logged /\ exit' = 0
    /\ pc' = "exited"
    /\ UNCHANGED <<script, input, sc, token, ret, h, c, hs, cs, exp, err>>
    /\ UNCHANGED conns
    /\ UNCHANGED <<mux, origin, ci, ei, hi, req, writer, resp, evals, scanned>>

-----------------------------------------------------------------------------
(* The scripts Parse is run on.  A script is a sequence of named fragments *)
(* of HTC text; the input of the scanner is their concatenation.           *)

Text ==
    [ \* stanza heads
      H_handle_p    |-> <<"\n","h","a","n","d","l","e"," ","\"","/","p","\""," ","{">>,
      H_handle_q    |-> <<"\n","h","a","n","d","l","e"," ","\"","/","q","\""," ","{">>,
      H_client_nemo |-> <<"\n","c","l","i","e","n","t"," ","\"","n","e","m","o","\""," ","{">>,
      H_client_m    |-> <<"\n","c","l","i","e","n","t"," ","\"","m","\""," ","{">>,
      H_handle_empty   |-> <<"\n","h","a","n","d","l","e"," ","\"","\""," ","{">>,
      H_handle_noslash |-> <<"\n","h","a","n","d","l","e"," ","\"","p","\""," ","{">>,
      H_handle_nopath  |-> <<"\n","h","a","n","d","l","e"," ","{">>,
      H_handle_nocurly |-> <<"\n","h","a","n","d","l","e"," ","\"","/","p","\""," ","}">>,
      H_client_noname  |-> <<"\n","c","l","i","e","n","t"," ","{">>,
      H_client_nocurly |-> <<"\n","c","l","i","e","n","t"," ","\"","n","e","m","o","\""," ","[">>,
      \* the closing brace of a stanza
      X_close       |-> <<"\n","}">>,
      \* whole statements of a stanza body, one per line
      S_exp_req_method  |-> <<"\n"," "," "," "," ","e","x","p","e","c","t"," ","r","e","q",".","m","e","t","h","o","d"," ","e","q"," ","\"","G","E","T","\"">>,
      S_exp_resp_method |-> <<"\n"," "," "," "," ","e","x","p","e","c","t"," ","r","e","s","p",".","m","e","t","h","o","d"," ","e","q"," ","\"","G","E","T","\"">>,
      S_exp_resp_status |-> <<"\n"," "," "," "," ","e","x","p","e","c","t"," ","r","e","s","p",".","s","t","a","t","u","s"," ","n","e"," ","4","0","4">>,
      S_tx_body         |-> <<"\n"," "," "," "," ","t","x"," ","-","b","o","d","y"," ","\"","b","\"">>,
      S_tx_url_method   |-> <<"\n"," "," "," "," ","t","x"," ","-","u","r","l"," ","\"","/","x","\""," ","-","m","e","t","h","o","d"," ","\"","P","O","S","T","\"">>,
      S_tx_status_hdr   |-> <<"\n"," "," "," "," ","t","x"," ","-","s","t","a","t","u","s"," ","4","0","4"," ","-","h","e","a","d","e","r"," ","\"","A",":"," ","1","\"">>,
      S_illegal         |-> <<"\n"," "," "," "," ","$">>,
      \* a tx command and its flags
      S_tx          |-> <<"\n"," "," "," "," ","t","x">>,
      F_body        |-> <<" ","-","b","o","d","y"," ","\"","b","\"">>,
      F_hdr_A1      |-> <<" ","-","h","e","a","d","e","r"," ","\"","A",":"," ","1","\"">>,
      F_hdr_A2      |-> <<" ","-","h","e","a","d","e","r"," ","\"","A",":"," ","2","\"">>,
      F_hdr_Bxy     |-> <<" ","-","h","e","a","d","e","r"," ","\"","B",":","x",":","y","\"">>,
      F_hdr_nocolon |-> <<" ","-","h","e","a","d","e","r"," ","\"","A","\"">>,
      F_status      |-> <<" ","-","s","t","a","t","u","s"," ","4","0","4">>,
      F_status_str  |-> <<" ","-","s","t","a","t","u","s"," ","\"","x","\"">>,
      F_method      |-> <<" ","-","m","e","t","h","o","d"," ","\"","P","O","S","T","\"">>,
      F_url         |-> <<" ","-","u","r","l"," ","\"","/","x","\"">>,
      F_body_int    |-> <<" ","-","b","o","d","y"," ","5">>,
      F_bogus       |-> <<" ","-","b","o","g","u","s">>,
      \* an expect command, token by token
      E_expect      |-> <<"\n"," "," "," "," ","e","x","p","e","c","t">>,
      E_req         |-> <<" ","r","e","q">>,
      E_resp        |-> <<" ","r","e","s","p">>,
      E_request     |-> <<" ","r","e","q","u","e","s","t">>,
      E_method      |-> <<".","m","e","t","h","o","d">>,
      E_status      |-> <<".","s","t","a","t","u","s">>,
      E_body        |-> <<".","b","o","d","y">>,
      E_headers_A   |-> <<".","h","e","a","d","e","r","s","[","\"","A","\"","]">>,
      E_headers_bare |-> <<".","h","e","a","d","e","r","s","[","A","]">>,
      E_headers_open |-> <<".","h","e","a","d","e","r","s","[","\"","A","\"">>,
      E_path        |-> <<".","p","a","t","h">>,
      E_nodot       |-> <<" ","m","e","t","h","o","d">>,
      E_eq          |-> <<" ","e","q">>,
      E_ne          |-> <<" ","n","e">>,
      E_tilde       |-> <<" ","~">>,
      E_equals      |-> <<" ","=">>,
      E_str         |-> <<" ","\"","G","E","T","\"">>,
      E_int         |-> <<" ","2","0","0">>,
      E_word        |-> <<" ","G","E","T">>,
      \* text between stanzas
      T_comment     |-> <<"#"," ","c","\n">>,
      T_ws          |-> <<" ","\n","\t">>,
      T_illegal     |-> <<"\n","$">>,
      T_string      |-> <<"\n","\"","s","\"">>,
      T_int         |-> <<"\n","4","2">>,
      T_punct       |-> <<"\n","}"," ","."," ","["," ","]"," ","{"," ","~">>,
      T_field       |-> <<"\n","b","o","d","y"," ","s","t","a","t","u","s"," ","h","e","a","d","e","r","s"," ","m","e","t","h","o","d">>,
      T_flag        |-> <<"\n","-","s","t","a","t","u","s"," ","-","b","o","d","y">>,
      T_cmd         |-> <<"\n","e","x","p","e","c","t"," ","r","e","q"," ","e","q"," ","t","x">>,
      \* statements of the programs main is run on: expects on the request
      R_req_method_post |-> <<"\n"," "," "," "," ","e","x","p","e","c","t"," ","r","e","q",".","m","e","t","h","o","d"," ","e","q"," ","\"","P","O","S","T","\"">>,
      R_req_method_re   |-> <<"\n"," "," "," "," ","e","x","p","e","c","t"," ","r","e","q",".","m","e","t","h","o","d"," ","~"," ","\"","^","G",".","*","T","$","\"">>,
      R_req_body_eq     |-> <<"\n"," "," "," "," ","e","x","p","e","c","t"," ","r","e","q",".","b","o","d","y"," ","e","q"," ","\"","b","\"">>,
      R_req_body_ne     |-> <<"\n"," "," "," "," ","e","x","p","e","c","t"," ","r","e","q",".","b","o","d","y"," ","n","e"," ","\"","b","\"">>,
      R_req_hdr         |-> <<"\n"," "," "," "," ","e","x","p","e","c","t"," ","r","e","q",".","h","e","a","d","e","r","s","[","\"","a","\"","]"," ","e","q"," ","\"","1","\"">>,
      R_req_status      |-> <<"\n"," "," "," "," ","e","x","p","e","c","t"," ","r","e","q",".","s","t","a","t","u","s"," ","e","q"," ","2","0","0">>,
      R_req_re_bad      |-> <<"\n"," "," "," "," ","e","x","p","e","c","t"," ","r","e","q",".","m","e","t","h","o","d"," ","~"," ","\"","(","\"">>,
      \* expects on the response
      R_resp_method_empty |-> <<"\n"," "," "," "," ","e","x","p","e","c","t"," ","r","e","s","p",".","m","e","t","h","o","d"," ","e","q"," ","\"","\"">>,
      R_resp_status_200 |-> <<"\n"," "," "," "," ","e","x","p","e","c","t"," ","r","e","s","p",".","s","t","a","t","u","s"," ","e","q"," ","2","0","0">>,
      R_resp_body_eq    |-> <<"\n"," "," "," "," ","e","x","p","e","c","t"," ","r","e","s","p",".","b","o","d","y"," ","e","q"," ","\"","b","\"">>,
      R_resp_body_ne    |-> <<"\n"," "," "," "," ","e","x","p","e","c","t"," ","r","e","s","p",".","b","o","d","y"," ","n","e"," ","\"","b","\"">>,
      R_resp_body_re    |-> <<"\n"," "," "," "," ","e","x","p","e","c","t"," ","r","e","s","p",".","b","o","d","y"," ","~"," ","\"","^","b","*","$","\"">>,
      R_resp_hdr        |-> <<"\n"," "," "," "," ","e","x","p","e","c","t"," ","r","e","s","p",".","h","e","a","d","e","r","s","[","\"","A","\"","]"," ","n","e"," ","\"","1","\"">>,
      R_resp_hdr_eq     |-> <<"\n"," "," "," "," ","e","x","p","e","c","t"," ","r","e","s","p",".","h","e","a","d","e","r","s","[","\"","A","\"","]"," ","e","q"," ","\"","1","\"">>,
      R_resp_re_bad     |-> <<"\n"," "," "," "," ","e","x","p","e","c","t"," ","r","e","s","p",".","b","o","d","y"," ","~"," ","\"","*","\"">>,
      \* tx commands of a handler
      R_tx_pct          |-> <<"\n"," "," "," "," ","t","x"," ","-","b","o","d","y"," ","\"","1","0","0","%","\"">>,
      R_tx_204          |-> <<"\n"," "," "," "," ","t","x"," ","-","s","t","a","t","u","s"," ","2","0","4"," ","-","b","o","d","y"," ","\"","b","\"">>,
      R_tx_hdrs         |-> <<"\n"," "," "," "," ","t","x"," ","-","h","e","a","d","e","r"," ","\"","A",":"," ","1","\""," ","-","h","e","a","d","e","r"," ","\"","a",":"," ","2","\"">>,
      R_tx_1000         |-> <<"\n"," "," "," "," ","t","x"," ","-","s","t","a","t","u","s"," ","1","0","0","0">>,
      \* tx commands of a client
      R_tx_get          |-> <<"\n"," "," "," "," ","t","x"," ","-","u","r","l"," ","\"","/","p","\"">>,
      R_tx_post         |-> <<"\n"," "," "," "," ","t","x"," ","-","u","r","l"," ","\"","/","p","\""," ","-","m","e","t","h","o","d"," ","\"","P","O","S","T","\""," ","-","b","o","d","y"," ","\"","b","\""," ","-","h","e","a","d","e","r"," ","\"","A",":"," ","1","\"">>,
      R_tx_q            |-> <<"\n"," "," "," "," ","t","x"," ","-","u","r","l"," ","\"","/","q","\"">>,
      R_tx_badurl       |-> <<"\n"," "," "," "," ","t","x"," ","-","u","r","l"," ","\"","p","\"">>,
      \* pieces of the inputs the scanner alone is run on; N_nul is the rune U+0000
      N_nul         |-> <<"NUL">>,
      N_comment_nl  |-> <<"#"," ","c","\n">>,
      N_comment     |-> <<"#"," ","c">>,
      N_blank_lines |-> <<" "," ","\n","\n"," ">>,
      N_blank_lines_handle |-> <<" "," ","\n","\n"," ","h","a","n","d","l","e">>,
      N_blanks      |-> <<" "," ">>,
      N_handle      |-> <<"h","a","n","d","l","e">>,
      N_ciao        |-> <<"\"","c","i","a","o","\"">>,
      N_close       |-> <<"}">>,
      N_status      |-> <<"-","s","t","a","t","u","s">>,
      N_status_code |-> <<"-","s","t","a","t","u","s","-","c","o","d","e">>,
      N_Handle      |-> <<"H","a","n","d","l","e">>,
      N_int         |-> <<"4","2">> ]

RECURSIVE Flatten(_)
Flatten(items) ==
    IF items = <<>> THEN <<>> ELSE Text[Head(items)] \o Flatten(Tail(items))

\* longest body, in statements, of the stanza scripts
MaxStmts == 3

\* most flags of a tx command in the tx scripts
MaxFlags == 2

\* most blocks (stanzas, comments, stray tokens) of the program scripts
MaxBlocks == 3

SeqsUpTo(S, n) == UNION {[1..k -> S] : k \in 0..n}

Stmts ==
    {"S_exp_req_method", "S_exp_resp_method", "S_exp_resp_status",
     "S_tx_body", "S_tx_url_method", "S_tx_status_hdr", "S_illegal"}

Flags ==
    {"F_body", "F_hdr_A1", "F_hdr_A2", "F_hdr_Bxy", "F_hdr_nocolon", "F_status",
     "F_status_str", "F_method", "F_url", "F_body_int", "F_bogus"}

GoodHeads == {"H_handle_p", "H_client_nemo"}

BadHeads ==
    {"H_handle_empty", "H_handle_noslash", "H_handle_nopath", "H_handle_nocurly",
     "H_client_noname", "H_client_nocurly"}

\* with and without the closing brace
Closes == {<<"X_close">>, <<>>}

\* one stanza with a body of whole statements
StanzaScripts ==
    {<<hd>> \o body \o cl : hd \in GoodHeads, body \in SeqsUpTo(Stmts, MaxStmts), cl \in Closes}

\* one stanza holding one tx command
TxScripts ==
    {<<hd, "S_tx">> \o fl \o cl : hd \in GoodHeads, fl \in SeqsUpTo(Flags, MaxFlags), cl \in Closes}

\* one stanza holding one expect command
ExpectScripts ==
    {<<hd, "E_expect", side, field, op, val, "X_close">> :
        hd \in GoodHeads,
        side \in {"E_req", "E_resp", "E_request"},
        field \in {"E_method", "E_status", "E_body", "E_headers_A",
                   "E_headers_bare", "E_headers_open", "E_path", "E_nodot"},
        op \in {"E_eq", "E_ne", "E_tilde", "E_equals"},
        val \in {"E_str", "E_int", "E_word"}}

\* a stanza whose head is malformed
BadHeadScripts == {<<hd, "X_close">> : hd \in BadHeads}

Blocks ==
    {<<"T_comment">>, <<"T_ws">>, <<"T_illegal">>, <<"T_string">>,
     <<"H_handle_p", "X_close">>,
     <<"H_handle_q", "S_exp_req_method", "S_exp_resp_status", "S_tx_body", "X_close">>,
     <<"H_client_nemo", "X_close">>,
     <<"H_client_m", "S_exp_resp_status", "S_tx_url_method", "X_close">>}

\* stray tokens at the top level, before and after a stanza
StrayTokens == {"T_string", "T_int", "T_punct", "T_field", "T_flag", "T_cmd"}

StrayScripts ==
    {<<a>> \o st \o <<b>> :
        a \in StrayTokens \cup {"T_illegal"},
        st \in {<<"H_handle_p", "X_close">>, <<"H_client_m", "S_exp_resp_status", "S_tx_url_method", "X_close">>},
        b \in StrayTokens \cup {"T_illegal"}}

RECURSIVE Concat(_)
Concat(seqs) == IF seqs = <<>> THEN <<>> ELSE Head(seqs) \o Concat(Tail(seqs))

\* whole programs: stanzas, comments and stray tokens in a row
ProgramScripts == {Concat(bs) : bs \in SeqsUpTo(Blocks, MaxBlocks)}

Scripts ==
    StanzaScripts \cup TxScripts \cup ExpectScripts \cup BadHeadScripts \cup ProgramScripts
        \cup StrayScripts

-----------------------------------------------------------------------------
(* The programs main is run on: a handle stanza and a client stanza, the   *)
(* client's expects before its tx.                                         *)

\* most expects of a stanza in the programs main is run on
MaxRunExpects == 2

ReqExpects ==
    {"S_exp_req_method", "R_req_method_post", "R_req_method_re", "R_req_body_eq",
     "R_req_body_ne", "R_req_hdr", "R_req_status", "R_req_re_bad"}

RespExpects ==
    {"S_exp_resp_status", "R_resp_method_empty", "R_resp_status_200", "R_resp_body_eq",
     "R_resp_body_ne", "R_resp_body_re", "R_resp_hdr", "R_resp_hdr_eq", "R_resp_re_bad"}

\* the tx of a handler, none included
HandlerTxs ==
    {<<>>, <<"S_tx_body">>, <<"S_tx_status_hdr">>, <<"R_tx_pct">>, <<"R_tx_204">>,
     <<"R_tx_hdrs">>, <<"R_tx_1000">>}

\* the tx of a client, none included
ClientTxs == {<<>>, <<"R_tx_get">>, <<"R_tx_post">>, <<"R_tx_q">>, <<"R_tx_badurl">>}

Handler(es, tx) == <<"H_handle_p">> \o es \o tx \o <<"X_close">>

Client(es, tx) == <<"H_client_nemo">> \o es \o tx \o <<"X_close">>

\* the handler varies, the client sends a GET or a POST and expects nothing
HandlerRuns ==
    {Handler(es, <<"S_tx_body">>) \o Client(<<>>, tx) :
        es \in SeqsUpTo(ReqExpects, MaxRunExpects), tx \in {<<"R_tx_get">>, <<"R_tx_post">>}}

\* the client's expects vary, the handler answers "b"
ClientRuns ==
    {Handler(<<>>, <<"S_tx_body">>) \o Client(es, <<"R_tx_get">>) :
        es \in SeqsUpTo(RespExpects, MaxRunExpects)}

\* the tx commands vary
TxRuns ==
    {Handler(<<>>, htx) \o Client(es, ctx) :
        htx \in HandlerTxs, ctx \in ClientTxs, es \in SeqsUpTo(RespExpects, 1)}

\* a handler that records a failure, and a client that expects
BothRuns ==
    {Handler(<<he>>, <<"S_tx_body">>) \o Client(<<ce>>, <<"R_tx_post">>) :
        he \in ReqExpects, ce \in RespExpects}

\* programs Parse rejects
RejectedRuns ==
    {<<"H_handle_empty", "X_close">>,
     <<"H_handle_p", "S_tx", "F_bogus", "X_close">>,
     <<"T_comment">>}

\* programs of one stanza and of several stanzas
OtherRuns ==
    {Client(<<>>, <<"R_tx_get">>),
     Handler(<<>>, <<"S_tx_body">>),
     Handler(<<>>, <<"S_tx_body">>) \o Handler(<<>>, <<"R_tx_pct">>) \o Client(<<>>, <<"R_tx_get">>),
     <<"H_handle_q", "S_tx_body", "X_close">> \o Handler(<<"R_req_body_eq">>, <<"S_tx_body">>)
        \o Client(<<"R_resp_body_eq">>, <<"R_tx_post">>) \o Client(<<"R_resp_status_200">>, <<"R_tx_q">>),
     Handler(<<"R_req_method_post">>, <<"S_tx_body">>)
        \o Client(<<>>, <<"R_tx_get">>) \o Client(<<>>, <<"R_tx_badurl">>)}

RunScripts ==
    HandlerRuns \cup ClientRuns \cup TxRuns \cup BothRuns \cup OtherRuns \cup RejectedRuns

-----------------------------------------------------------------------------
(* What the fragments of a script say, read off their text *)

HandleHeads == {"H_handle_p", "H_handle_q"}

ClientHeads == {"H_client_nemo", "H_client_m"}

\* the URI path of a handle head, the name of a client head
HeadKey ==
    [H_handle_p |-> <<"/","p">>, H_handle_q |-> <<"/","q">>, H_client_nemo |-> <<"n","e","m","o">>, H_client_m |-> <<"m">>]

ExpectStmts == {"S_exp_req_method", "S_exp_resp_method", "S_exp_resp_status"}

\* the text of an expect statement as Expect.String shows it
Verbatim ==
    [S_exp_req_method  |-> <<"r","e","q",".","m","e","t","h","o","d"," ","e","q"," ","\"","G","E","T","\"">>,
     S_exp_resp_method |-> <<"r","e","s","p",".","m","e","t","h","o","d"," ","e","q"," ","\"","G","E","T","\"">>,
     S_exp_resp_status |-> <<"r","e","s","p",".","s","t","a","t","u","s"," ","n","e"," ","\"","4","0","4","\"">>]

TxStmts == {"S_tx_body", "S_tx_url_method", "S_tx_status_hdr"}

\* the well-formed -header flags: name and value as written around the first colon
HeaderFlags == {"F_hdr_A1", "F_hdr_A2", "F_hdr_Bxy"}

HdrName == [F_hdr_A1 |-> <<"A">>, F_hdr_A2 |-> <<"A">>, F_hdr_Bxy |-> <<"B">>]

HdrValue == [F_hdr_A1 |-> <<" ","1">>, F_hdr_A2 |-> <<" ","2">>, F_hdr_Bxy |-> <<"x",":","y">>]

\* the same values without the blank that follows the colon
HdrValueTrimmed == [F_hdr_A1 |-> <<"1">>, F_hdr_A2 |-> <<"2">>, F_hdr_Bxy |-> <<"x",":","y">>]

\* the flags a tx command takes in the stanza that head hd opens
GoodFlags(hd) ==
    IF hd \in HandleHeads THEN HeaderFlags \cup {"F_body", "F_status"}
    ELSE HeaderFlags \cup {"F_body", "F_method", "F_url"}

\* the script is a single stanza with a well-formed head
OneStanza ==
    /\ script # <<>>
    /\ script[1] \in GoodHeads
    /\ \A i \in 2..Len(script) : script[i] \notin (GoodHeads \cup HandleHeads \cup ClientHeads \cup BadHeads)

\* the script is a single stanza holding one tx command; its flags
TxShape == OneStanza /\ Len(script) >= 2 /\ script[2] = "S_tx"

FlagsOf(items) == SelectSeq(items, LAMBDA x : x \in Flags)

\* index of the first flag of fs outside good, 0 when all are in it
FirstBad(fs, good) ==
    IF \A j \in 1..Len(fs) : fs[j] \in good THEN 0
    ELSE CHOOSE j \in 1..Len(fs) :
            /\ fs[j] \notin good
            /\ \A k \in 1..(j - 1) : fs[k] \in good

\* the header map the -header flags of fs describe when val gives the value of
\* each flag: the last flag of a name decides
HeadersOf(fs, val) ==
    LET at(n) == {j \in 1..Len(fs) : fs[j] \in HeaderFlags /\ HdrName[fs[j]] = n}
        last(n) == CHOOSE j \in at(n) : \A k \in at(n) : k <= j
    IN  [n \in {HdrName[fs[j]] : j \in {i \in 1..Len(fs) : fs[i] \in HeaderFlags}}
            |-> val[fs[last(n)]]]

\* the header map of the tx command being parsed
CurHeaders ==
    IF script[1] \in HandleHeads THEN hs.Response.headers ELSE cs.Request.headers

\* the header maps of the stanzas Parse has finished
DoneHeaders ==
    {h[i].Response.headers : i \in 1..Len(h)} \cup {c[i].Request.headers : i \in 1..Len(c)}

-----------------------------------------------------------------------------
(* C1 *)

\* C1: every handle stanza that parsed carries a response of status 200 with no
\* header and an empty body unless a tx flag set them: in a script without any
\* tx command every parsed handler has exactly that response.
C1_DefaultResponse ==
    (\A i \in 1..Len(script) : script[i] \notin TxStmts \cup {"S_tx"})
        => \A i \in 1..Len(h) :
              h[i].Response = [statusCode |-> 200, headers |-> NoHeaders, body |-> <<>>]

-----------------------------------------------------------------------------
(* C2 *)

\* C2: when the body of a handle stanza reaches end of input, Parse returns the
\* syntax error that names the expected '}': the body loop of parseHandle never
\* holds the EOF token without that error having been returned.
C2_UnclosedHandleIsError ==
    (pc = "parseHandle_loop" /\ token.typ = "EOF")
        => err.msg = "Parse error in 'handle' stanza: expecting '}' after 'tx' command"

-----------------------------------------------------------------------------
(* C3 *)

\* a client stanza, closed, whose body is one well-formed tx and expects only
ClientOneTx ==
    /\ OneStanza
    /\ Len(script) >= 3
    /\ script[1] = "H_client_nemo"
    /\ script[Len(script)] = "X_close"
    /\ \A i \in 2..(Len(script) - 1) :
          script[i] \in ExpectStmts \cup {"S_tx_body", "S_tx_url_method"}
    /\ Cardinality({i \in 2..(Len(script) - 1) : script[i] \in TxStmts}) = 1

\* the request a well-formed client tx statement describes
RequestOf(stmt) ==
    IF stmt = "S_tx_body"
    THEN [uri |-> <<>>, method |-> <<"G","E","T">>, headers |-> NoHeaders, body |-> <<"b">>]
    ELSE [uri |-> <<"/","x">>, method |-> <<"P","O","S","T">>, headers |-> NoHeaders, body |-> <<>>]

\* C3: a client body of one well-formed tx and n well-formed expects, one per
\* line and in any order, parses, and the ClientStanza holds the request of the
\* tx and all n assertions.
C3_ClientAnyOrder ==
    ClientOneTx =>
        /\ pc \notin {"error", "panic"}
        /\ pc = "done" =>
              /\ Len(c) = 1
              /\ \E i \in 2..(Len(script) - 1) :
                    script[i] \in TxStmts /\ c[1].Request = RequestOf(script[i])
              /\ Len(c[1].Expectations) = Len(script) - 3

-----------------------------------------------------------------------------
(* C4 *)

\* no fragment of the script opens a stanza
NoStanzaInScript ==
    \A i \in 1..Len(script) : script[i] \in {"T_comment", "T_ws", "T_illegal", "T_string"}

\* C4: a Parse that returns without error returns at least one handler or one
\* client; a script without any stanza never parses, and once its end of input
\* is reached Parse has failed with the error that asks for a stanza.
C4_AtLeastOneStanza ==
    /\ pc = "done" => Len(h) + Len(c) >= 1
    /\ NoStanzaInScript =>
          /\ pc \in {"Parse", "error"}
          /\ token.typ = "EOF" =>
                /\ pc = "error"
                /\ err.msg = "Parse error: at least one of 'handle' or 'client' stanza are needed"

\* a script of comments and whitespace only has been rejected for having no stanza
C4_Witness ==
    /\ script # <<>>
    /\ \A i \in 1..Len(script) : script[i] \in {"T_comment", "T_ws"}
    /\ pc = "error"
    /\ err.msg = "Parse error: at least one of 'handle' or 'client' stanza are needed"

-----------------------------------------------------------------------------
(* C5 *)

\* the expect statements of a stanza body, up to its closing brace
RECURSIVE ExpectsOfBody(_)
ExpectsOfBody(items) ==
    IF items = <<>> THEN <<>>
    ELSE IF Head(items) = "X_close" THEN <<>>
    ELSE IF Head(items) \in ExpectStmts
         THEN <<Verbatim[Head(items)]>> \o ExpectsOfBody(Tail(items))
    ELSE ExpectsOfBody(Tail(items))

\* the stanzas of a script whose head is in heads, in the order of the script
RECURSIVE StanzasOf(_, _)
StanzasOf(items, heads) ==
    IF items = <<>> THEN <<>>
    ELSE IF Head(items) \in heads
         THEN <<[key |-> HeadKey[Head(items)], exps |-> ExpectsOfBody(Tail(items))]>>
              \o StanzasOf(Tail(items), heads)
    ELSE StanzasOf(Tail(items), heads)

VerbatimsOf(es) == [j \in 1..Len(es) |-> es[j].verbatim]

HandlersParsed ==
    [i \in 1..Len(h) |-> [key |-> h[i].URIPath, exps |-> VerbatimsOf(h[i].Expectations)]]

ClientsParsed ==
    [i \in 1..Len(c) |-> [key |-> c[i].Name, exps |-> VerbatimsOf(c[i].Expectations)]]

\* C5: on success the handlers are the handle stanzas of the script in script
\* order, the clients are its client stanzas in script order, and each stanza
\* holds its expects in the order written, none dropped and none twice.
C5_SourceOrder ==
    (pc = "done" /\ \A i \in 1..Len(script) : script[i] # "E_expect")
        => /\ HandlersParsed = StanzasOf(script, HandleHeads)
           /\ ClientsParsed = StanzasOf(script, ClientHeads)

\* a program of two handlers and a client, one stanza with two expects, parsed
C5_Witness ==
    /\ pc = "done"
    /\ Len(h) = 2
    /\ Len(c) = 1
    /\ h[1].URIPath # h[2].URIPath
    /\ \E i \in 1..2 : Len(h[i].Expectations) = 2

-----------------------------------------------------------------------------
(* C6 *)

\* a handle stanza in which a statement follows a tx statement
HandleTxNotLast ==
    /\ OneStanza
    /\ script[1] \in HandleHeads
    /\ \E i \in 2..(Len(script) - 1) : script[i] \in TxStmts /\ script[i + 1] \in Stmts

\* C6: in a handle stanza tx is the final statement: when a statement follows a
\* tx, Parse never returns the stanza, and no expect of a handle stanza is
\* parsed after a tx of that stanza.
C6_TxIsFinal ==
    /\ HandleTxNotLast => (h = <<>> /\ pc # "done")
    /\ (pc = "Expect_side" /\ ret = "parseHandle") => hs.Response = ZeroTxResp

\* Parse failed on the expect that follows the tx of a handle stanza
C6_Witness ==
    /\ HandleTxNotLast
    /\ script[2] = "S_tx_body"
    /\ script[3] \in ExpectStmts
    /\ pc = "error"
    /\ token.typ = "EXPECT"

-----------------------------------------------------------------------------
(* C7 *)

\* a single tx command, all flags well-formed, that repeats a header name
RepeatsHeader ==
    /\ TxShape
    /\ FirstBad(FlagsOf(script), GoodFlags(script[1])) = 0
    /\ \E i, j \in 1..Len(script) :
          /\ i < j
          /\ script[i] \in HeaderFlags
          /\ script[j] \in HeaderFlags
          /\ HdrName[script[i]] = HdrName[script[j]]

\* C7 as stated: a repeated -header name has one entry whose value is the value
\* of the last occurrence, "A: 1" then "A: 2" giving A mapped to "2".
C7_LastHeaderWins_Original ==
    (RepeatsHeader /\ pc = "done")
        => DoneHeaders = {HeadersOf(FlagsOf(script), HdrValueTrimmed)}

\* C7 amended: a repeated -header name has one entry, and its value is the text
\* that follows the first colon of the last occurrence, the blank after the
\* colon included: "A: 1" then "A: 2" gives A mapped to " 2" only.
C7_LastHeaderWins ==
    (RepeatsHeader /\ pc = "done")
        => DoneHeaders = {HeadersOf(FlagsOf(script), HdrValue)}

\* handle "/p" { tx -header "A: 1" -header "A: 2" } has parsed
C7_Witness ==
    /\ script = <<"H_handle_p", "S_tx", "F_hdr_A1", "F_hdr_A2", "X_close">>
    /\ pc = "done"
    /\ Len(h) = 1

-----------------------------------------------------------------------------
(* C8 *)

\* the first flag the tx command rejects is the -header without a colon
FirstBadIsNoColon ==
    /\ TxShape
    /\ FirstBad(FlagsOf(script), GoodFlags(script[1])) # 0
    /\ FlagsOf(script)[FirstBad(FlagsOf(script), GoodFlags(script[1]))] = "F_hdr_nocolon"

\* the flags of the tx command before the first one it rejects
FlagsBeforeBad ==
    SubSeq(FlagsOf(script), 1, FirstBad(FlagsOf(script), GoodFlags(script[1])) - 1)

\* C8: a -header argument is split at its first colon only, later colons
\* staying in the value; a -header argument without a colon makes the tx
\* parser and Parse fail with the header parse error, and the header map is
\* left as the flags before it made it.
C8_HeaderSplit ==
    /\ FirstBadIsNoColon =>
          /\ pc # "done"
          /\ h = <<>> /\ c = <<>>
          /\ CurHeaders \in {HeadersOf(SubSeq(FlagsBeforeBad, 1, j), HdrValue) :
                                j \in 0..Len(FlagsBeforeBad)}
          /\ pc = "error" =>
                /\ err.msg = "Parse error in 'tx' command: expecting a header"
                /\ CurHeaders = HeadersOf(FlagsBeforeBad, HdrValue)
    /\ (/\ TxShape
        /\ pc = "done"
        /\ \E i \in 1..Len(script) : script[i] = "F_hdr_Bxy")
          => \A m \in DoneHeaders : <<"B">> \in DOMAIN m /\ m[<<"B">>] = <<"x",":","y">>

\* a tx command failed on a -header without a colon after it had set a header
C8_Witness ==
    /\ FirstBadIsNoColon
    /\ pc = "error"
    /\ err.msg = "Parse error in 'tx' command: expecting a header"
    /\ CurHeaders # NoHeaders

-----------------------------------------------------------------------------
(* C9 *)

\* the error a tx command of the stanza opened by hd returns on flag f
FlagError(hd, f) ==
    IF f = "F_hdr_nocolon" THEN "Parse error in 'tx' command: expecting a header"
    ELSE IF f = "F_body_int" THEN "Parse error in 'tx' command: expecting a string"
    ELSE IF hd \in HandleHeads
    THEN IF f = "F_status_str"
         THEN "Parse error in 'tx' command: expecting an integer"
         ELSE "Parse error in 'tx' command: expecting -body, -header, or -status"
    ELSE "Parse error in 'tx' command: expecting -url, -header, method, or -body"

\* C9: the flag sets of tx are closed and depend on the stanza: in a handle
\* stanza a flag other than -body, -header, -status, and in a client stanza a
\* flag other than -body, -header, -method, -url, is a parse error, and so is a
\* flag whose value is of the wrong literal kind; Parse returns no stanza.
C9_ClosedFlagSets ==
    (TxShape /\ FirstBad(FlagsOf(script), GoodFlags(script[1])) # 0)
        => /\ pc # "done"
           /\ h = <<>> /\ c = <<>>
           /\ token.typ = "EOF" => pc = "error"
           /\ pc = "error" =>
                 err.msg = FlagError(script[1],
                              FlagsOf(script)[FirstBad(FlagsOf(script), GoodFlags(script[1]))])

\* a handle tx failed on -method, a flag of client stanzas only
C9_Witness ==
    /\ TxShape
    /\ script[1] \in HandleHeads
    /\ Len(script) >= 3
    /\ script[3] = "F_method"
    /\ pc = "error"
    /\ err.msg = "Parse error in 'tx' command: expecting -body, -header, or -status"

-----------------------------------------------------------------------------
(* C10 *)

\* what the evaluation of an Expect reads: every field but the verbatim text
Evaluated(e) ==
    [field |-> e.field, headerName |-> e.headerName,
     operator |-> e.operator, expected |-> e.expected]

\* the Expect lists of the stanzas parsed so far, finished or in progress
ExpectLists ==
    {h[i].Expectations : i \in 1..Len(h)} \cup {c[i].Expectations : i \in 1..Len(c)}
        \cup {hs.Expectations, cs.Expectations}

\* C10: a parsed Expect records its side: the Expects of req.method eq "GET"
\* and of resp.method eq "GET", which differ in the side keyword only, differ
\* in what evaluation reads of them.
C10_SideRecorded ==
    \A es \in ExpectLists : \A i, j \in 1..Len(es) :
        (/\ es[i].verbatim = Verbatim.S_exp_req_method
         /\ es[j].verbatim = Verbatim.S_exp_resp_method)
            => Evaluated(es[i]) # Evaluated(es[j])

-----------------------------------------------------------------------------
(* The specification: Parse(r) on the reader r of a script *)

\* main before it starts the origin and the proxy
mainInit ==
    /\ mux = <<>>
    /\ origin = [errors |-> <<>>]
    /\ proxy = "none"
    /\ ci = 0
    /\ ei = 0
    /\ hi = 0
    /\ req = NoRequest
    /\ writer = NoWriter
    /\ resp = NoResponse
    /\ exit = -1
    /\ logged = <<>>
    /\ evals = <<>>
    /\ conns = <<>>

\* newScanner(r), and the variables of Parse before its loop
Init ==
    /\ script \in Scripts
    /\ input = Flatten(script)
    /\ sc = [pos |-> 1, cu |-> FALSE]
    /\ token = nil.got
    /\ pc = "Parse"
    /\ ret = ""
    /\ h = <<>>
    /\ c = <<>>
    /\ hs = ZeroHandleStanza
    /\ cs = ZeroClientStanza
    /\ exp = ZeroExpect
    /\ err = nil
    /\ mainInit
    /\ scanned = <<>>

Next ==
    \/ Parse
    \/ parseHandle_URIPath
    \/ parseHandle_Begin
    \/ parseHandle_loop
    \/ TxResp_Parse
    \/ parseHandle_afterTx
    \/ parseClient_Name
    \/ parseClient_Begin
    \/ parseClient_loop
    \/ TxReq_Parse
    \/ Expect_side
    \/ Expect_dot
    \/ Expect_field
    \/ Expect_openBracket
    \/ Expect_headerName
    \/ Expect_closeBracket
    \/ Expect_operator
    \/ Expect_value

Spec == Init /\ [][Next]_vars


-----------------------------------------------------------------------------
(* The specification of main: origin and proxy are started, the script is  *)
(* open; Parse, then the handlers and the clients.                         *)

InitMain ==
    /\ script \in RunScripts
    /\ input = Flatten(script)
    /\ sc = [pos |-> 1, cu |-> FALSE]
    /\ token = nil.got
    /\ pc = "Parse"
    /\ ret = ""
    /\ h = <<>>
    /\ c = <<>>
    /\ hs = ZeroHandleStanza
    /\ cs = ZeroClientStanza
    /\ exp = ZeroExpect
    /\ err = nil
    /\ mux = <<>>
    /\ origin = [errors |-> <<>>]
    /\ proxy = "started"
    /\ ci = 0
    /\ ei = 0
    /\ hi = 0
    /\ req = NoRequest
    /\ writer = NoWriter
    /\ resp = NoResponse
    /\ exit = -1
    /\ logged = <<>>
    /\ evals = <<>>
    /\ scanned = <<>>
    /\ conns = <<>>

NextMain ==
    \/ Parse
    \/ parseHandle_URIPath
    \/ parseHandle_Begin
    \/ parseHandle_loop
    \/ TxResp_Parse
    \/ parseHandle_afterTx
    \/ parseClient_Name
    \/ parseClient_Begin
    \/ parseClient_loop
    \/ TxReq_Parse
    \/ Expect_side
    \/ Expect_dot
    \/ Expect_field
    \/ Expect_openBracket
    \/ Expect_headerName
    \/ Expect_closeBracket
    \/ Expect_operator
    \/ Expect_value
    \/ main_ParseFailed
    \/ main_addHandler
    \/ main_clients
    \/ main_Send
    \/ handler_expect
    \/ handler_Send
    \/ main_expect
    \/ main_nextClient
    \/ main_exit

SpecMain == InitMain /\ [][NextMain]_vars

-----------------------------------------------------------------------------
(* The specification of the scanner alone: a caller that makes any calls   *)
(* of scan, ScanUseful and unread on newScanner(r), as the parsers and the *)
(* scanner tests do.                                                       *)

\* most pieces of an input of the scanner
MaxPieces == 2

\* most calls the caller makes on one scanner
MaxCalls == 3

ScanPieces ==
    {"N_nul", "N_comment_nl", "N_comment", "N_blank_lines", "N_blank_lines_handle",
     "N_blanks", "N_handle", "N_ciao", "N_close",
     "N_status", "N_status_code", "N_Handle", "N_int"}

ScanInputs ==
    UNION {[1..n -> ScanPieces] : n \in 0..MaxPieces}

\* what a call returned: the token, and the reader's position before and after
Call(name, before, t) ==
    [call |-> name, tok |-> t.tok, from |-> before.pos, pos |-> t.s.pos]

scanner_scan ==
    /\ pc = "scanner"
    /\ Len(scanned) < MaxCalls
    /\ sc' = scan(sc).s
    /\ token' = scan(sc).tok
    /\ scanned' = Append(scanned, Call("scan", sc, scan(sc)))
    /\ UNCHANGED <<script, input, pc, ret, h, c, hs, cs, exp, err, mainVars>>

scanner_ScanUseful ==
    /\ pc = "scanner"
    /\ Len(scanned) < MaxCalls
    /\ sc' = ScanUseful(sc).s
    /\ token' = ScanUseful(sc).tok
    /\ scanned' = Append(scanned, Call("ScanUseful", sc, ScanUseful(sc)))
    /\ UNCHANGED <<script, input, pc, ret, h, c, hs, cs, exp, err, mainVars>>

scanner_unread ==
    /\ pc = "scanner"
    /\ Len(scanned) < MaxCalls
    /\ sc' = unread(sc)
    /\ scanned' = Append(scanned, Call("unread", sc, [tok |-> token, s |-> unread(sc)]))
    /\ UNCHANGED <<script, input, token, pc, ret, h, c, hs, cs, exp, err, mainVars>>

InitScan ==
    /\ script \in ScanInputs
    /\ input = Flatten(script)
    /\ sc = [pos |-> 1, cu |-> FALSE]
    /\ token = nil.got
    /\ pc = "scanner"
    /\ ret = ""
    /\ h = <<>>
    /\ c = <<>>
    /\ hs = ZeroHandleStanza
    /\ cs = ZeroClientStanza
    /\ exp = ZeroExpect
    /\ err = nil
    /\ mainInit
    /\ scanned = <<>>

NextScan ==
    \/ scanner_scan
    \/ scanner_ScanUseful
    \/ scanner_unread

SpecScan == InitScan /\ [][NextScan]_vars

-----------------------------------------------------------------------------
(* The specification of the origin: http.ListenAndServe serves every        *)
(* connection in a goroutine of its own, so the closures of addHandler run  *)
(* interleaved.  o.errors = append(o.errors, ...) is a read of the slice    *)
(* and a later write of it, with no lock around the two.                    *)

\* most connections the origin serves at once
MaxConns == 2

\* what Expect.Parse returns for these two commands
ExpectMethodPOST ==
    [verbatim |-> <<"r","e","q",".","m","e","t","h","o","d"," ","e","q"," ","\"","P","O","S","T","\"">>, field |-> "EXPECT_METHOD",
     headerName |-> <<>>, operator |-> "EQUAL", expected |-> <<"P","O","S","T">>]

ExpectHeaderA ==
    [verbatim |-> <<"r","e","q",".","h","e","a","d","e","r","s","[","a","]"," ","e","q"," ","\"","1","\"">>, field |-> "EXPECT_HEADERS",
     headerName |-> <<"a">>, operator |-> "EQUAL", expected |-> <<"1">>]

\* the handlers of the programs: handle "/p" { expects; tx -body "b" }
OriginHandlers ==
    {[URIPath |-> <<"/","p">>, Expectations |-> es,
      Response |-> [statusCode |-> 200, headers |-> NoHeaders, body |-> <<"b">>]] :
        es \in {<<ExpectMethodPOST>>, <<ExpectHeaderA>>,
                <<ExpectMethodPOST, ExpectHeaderA>>}}

\* the requests that reach the origin
InboundRequests ==
    {[Method |-> m, Path |-> p, Header |-> NoHeaders, Body |-> NoBody] :
        m \in {<<"G","E","T">>, <<"P","O","S","T">>}, p \in {<<"/","p">>, <<"/","q">>}}

\* a connection nothing has arrived on
IdleConn == [at |-> "idle", req |-> NoRequest, hi |-> 0, ei |-> 0, seen |-> <<>>, w |-> NoWriter]

\* a request arrives on a connection: the ServeMux finds its handler, whose
\* closure starts, or answers 404
origin_serve ==
    /\ pc = "origin"
    /\ \E k \in 1..MaxConns : \E r \in InboundRequests :
        /\ conns[k].at = "idle"
        /\ conns' = [conns EXCEPT ![k] =
              IF muxMatches(r.Path) = {}
              THEN [IdleConn EXCEPT !.at = "done", !.req = r, !.w = NotFound]
              ELSE [IdleConn EXCEPT !.at = "expect", !.req = r, !.ei = 1,
                                    !.hi = muxHandler(r.Path)]]
    /\ UNCHANGED <<parseVars, scanned>>
    /\ UNCHANGED <<mux, origin, proxy, ci, ei, hi, req, writer, resp, exit, logged, evals>>

\* the handler closure, one turn of its loop: exp.Request(*req)
origin_expect ==
    /\ pc = "origin"
    /\ \E k \in 1..MaxConns :
        /\ conns[k].at = "expect"
        /\ conns[k].ei <= Len(mux[conns[k].hi].Expectations)
        /\ LET e == mux[conns[k].hi].Expectations[conns[k].ei]
               v == Request(e, conns[k].req)
           IN
           IF v.out = "fatal"
           THEN exit' = 1 /\ pc' = "exited" /\ conns' = conns
           ELSE IF v.out = "panic"
           THEN /\ conns' = [conns EXCEPT ![k].at = "done", ![k].req = v.msg]
                /\ UNCHANGED <<exit, pc>>
           ELSE IF v.out = "true"
           THEN /\ conns' = [conns EXCEPT ![k].ei = @ + 1, ![k].req = v.msg]
                /\ UNCHANGED <<exit, pc>>
           ELSE /\ conns' = [conns EXCEPT ![k].at = "load", ![k].req = v.msg]
                /\ UNCHANGED <<exit, pc>>
    /\ UNCHANGED <<script, input, sc, token, ret, h, c, hs, cs, exp, err, scanned>>
    /\ UNCHANGED <<mux, origin, proxy, ci, ei, hi, req, writer, resp, logged, evals>>

\* append(o.errors, ...): the goroutine reads the slice o.errors
origin_load ==
    /\ pc = "origin"
    /\ \E k \in 1..MaxConns :
        /\ conns[k].at = "load"
        /\ conns' = [conns EXCEPT ![k].at = "store", ![k].seen = origin.errors]
    /\ UNCHANGED <<parseVars, scanned>>
    /\ UNCHANGED <<mux, origin, proxy, ci, ei, hi, req, writer, resp, exit, logged, evals>>

\* o.errors = ...: the goroutine writes the slice it read, one error longer;
\* the error holds exp.ActualRequest(*req)
origin_store ==
    /\ pc = "origin"
    /\ \E k \in 1..MaxConns :
        /\ conns[k].at = "store"
        /\ LET e == mux[conns[k].hi].Expectations[conns[k].ei]
               a == ActualRequest(e, conns[k].req)
           IN
           /\ origin' = [origin EXCEPT !.errors = Append(conns[k].seen, Failed(e, a.val))]
           /\ evals' = Append(evals, Eval("req", e, [a EXCEPT !.out = "false"], conns[k].req.Body.data))
           /\ conns' = [conns EXCEPT ![k].at = "expect", ![k].ei = @ + 1, ![k].req = a.msg]
    /\ UNCHANGED <<parseVars, scanned>>
    /\ UNCHANGED <<mux, proxy, ci, ei, hi, req, writer, resp, exit, logged>>

\* the handler closure after its loop: hs.Response.Send(w)
origin_Send ==
    /\ pc = "origin"
    /\ \E k \in 1..MaxConns :
        /\ conns[k].at = "expect"
        /\ conns[k].ei > Len(mux[conns[k].hi].Expectations)
        /\ \E o \in Orders(DOMAIN mux[conns[k].hi].Response.headers) :
              conns' = [conns EXCEPT ![k].at = "done",
                                     ![k].w = Send(mux[conns[k].hi].Response, o).w]
    /\ UNCHANGED <<parseVars, scanned>>
    /\ UNCHANGED <<mux, origin, proxy, ci, ei, hi, req, writer, resp, exit, logged, evals>>

\* main has registered the handlers of a program and its clients are running
InitOrigin ==
    /\ script = <<>>
    /\ input = <<>>
    /\ sc = [pos |-> 1, cu |-> FALSE]
    /\ token = newToken("EOF", <<>>)
    /\ pc = "origin"
    /\ ret = ""
    /\ \E hd \in OriginHandlers : h = <<hd>> /\ mux = <<hd>>
    /\ c = <<>>
    /\ hs = ZeroHandleStanza
    /\ cs = ZeroClientStanza
    /\ exp = ZeroExpect
    /\ err = nil
    /\ origin = [errors |-> <<>>]
    /\ proxy = "started"
    /\ ci = 1
    /\ ei = 0
    /\ hi = 0
    /\ req = NoRequest
    /\ writer = NoWriter
    /\ resp = NoResponse
    /\ exit = -1
    /\ logged = <<>>
    /\ evals = <<>>
    /\ scanned = <<>>
    /\ conns = [k \in 1..MaxConns |-> IdleConn]

NextOrigin ==
    \/ origin_serve
    \/ origin_expect
    \/ origin_load
    \/ origin_store
    \/ origin_Send

SpecOrigin == InitOrigin /\ [][NextOrigin]_vars

-----------------------------------------------------------------------------
(* The evaluations of a run, read off the history *)

\* the evaluations that ended in a verdict
Verdicts == {i \in 1..Len(evals) : evals[i].out \in {"true", "false"}}

\* the calls that returned to their caller: a verdict, or the value of a
\* diagnostic Actual... call
Returned == {i \in 1..Len(evals) : evals[i].out \in {"true", "false", "actual"}}

\* the program main runs is well-formed
WellFormedRun == script \notin RejectedRuns

-----------------------------------------------------------------------------
(* C11 *)

\* C11: evaluating an Expect on the method against a response is an error of
\* the evaluation: neither Response nor ActualResponse returns a verdict or a
\* value for it, and expect resp.method eq "" is never true.
C11_ResponseMethodIsError ==
    \A i \in 1..Len(evals) :
        (evals[i].side = "resp" /\ evals[i].e.field = "EXPECT_METHOD")
            => evals[i].out \notin {"true", "false", "actual"}

-----------------------------------------------------------------------------
(* C12 *)

\* the parsed Expects of the handlers and of the clients
HandlerExpects == UNION {{h[i].Expectations[j] : j \in 1..Len(h[i].Expectations)} : i \in 1..Len(h)}

ClientExpects == UNION {{c[i].Expectations[j] : j \in 1..Len(c[i].Expectations)} : i \in 1..Len(c)}

\* C12: the parser accepts an Expect on the status for either side (a
\* well-formed program with req.status or resp.status parses, the Expect has
\* the status field), and its evaluation against a request ends the process:
\* Request returns no verdict and no value, the exit status is 1.
C12_RequestStatusIsFatal ==
    /\ WellFormedRun => pc \notin {"error", "panic"}
    /\ (WellFormedRun /\ pc \notin {"Parse", "parseHandle_URIPath", "parseHandle_Begin",
                                    "parseHandle_loop", "TxResp_Parse", "parseHandle_afterTx",
                                    "parseClient_Name", "parseClient_Begin", "parseClient_loop",
                                    "TxReq_Parse", "Expect_side", "Expect_dot", "Expect_field",
                                    "Expect_openBracket", "Expect_headerName",
                                    "Expect_closeBracket", "Expect_operator", "Expect_value"})
          => /\ (\E i \in 1..Len(script) : script[i] = "R_req_status")
                  => \E e \in HandlerExpects :
                        e.verbatim = <<"r","e","q",".","s","t","a","t","u","s"," ","e","q"," ","\"","2","0","0","\"">> /\ e.field = "EXPECT_STATUS"
             /\ (\E i \in 1..Len(script) : script[i] = "R_resp_status_200")
                  => \E e \in ClientExpects :
                        e.verbatim = <<"r","e","s","p",".","s","t","a","t","u","s"," ","e","q"," ","\"","2","0","0","\"">> /\ e.field = "EXPECT_STATUS"
    /\ \A i \in 1..Len(evals) :
          (evals[i].side = "req" /\ evals[i].e.field = "EXPECT_STATUS")
              => /\ evals[i].out = "fatal"
                 /\ i = Len(evals)
                 /\ exit = 1
                 /\ pc = "exited"

\* a handler evaluated expect req.status eq 200 and the process ended
C12_Witness ==
    /\ evals # <<>>
    /\ evals[Len(evals)].side = "req"
    /\ evals[Len(evals)].e.verbatim = <<"r","e","q",".","s","t","a","t","u","s"," ","e","q"," ","\"","2","0","0","\"">>
    /\ evals[Len(evals)].out = "fatal"
    /\ exit = 1

-----------------------------------------------------------------------------
(* C13 *)

\* the operators the scanner knows that are none of eq, ne, ~
OtherOperators == {"ILLEGAL", "STRING", "INTEGER", "DOT", "EOF"}

\* C13: the parser takes any string as the value of a ~ Expect (a program
\* with a pattern that does not compile parses), and the evaluation of an
\* Expect whose pattern does not compile, or whose operator is none of eq,
\* ne, ~, panics: it returns neither true nor false.
C13_BadPatternPanics ==
    /\ WellFormedRun => pc \notin {"error", "panic"}
    /\ \A i \in 1..Len(evals) :
          (evals[i].e.operator = "TILDE" /\ regexpCompileError(evals[i].e.expected))
              => evals[i].out = IF evals[i].side = "req" /\ evals[i].e.field = "EXPECT_STATUS"
                                THEN "fatal" ELSE "panic"
    /\ \A i \in Returned : \A op \in OtherOperators :
          expectThing([evals[i].e EXCEPT !.operator = op], evals[i].actual) = "panic"

\* a client evaluated an Expect whose pattern "*" does not compile: the
\* process ended in a panic
C13_Witness ==
    /\ evals # <<>>
    /\ evals[Len(evals)].side = "resp"
    /\ evals[Len(evals)].e.operator = "TILDE"
    /\ evals[Len(evals)].e.expected = <<"*">>
    /\ evals[Len(evals)].out = "panic"
    /\ exit = 2

-----------------------------------------------------------------------------
(* C14 *)

\* C14: an eq Expect is true exactly when the expected and the actual string
\* are the same string and an ne Expect exactly when they differ, so that eq
\* and ne on the same expected and actual value give opposite verdicts.
C14_EqNe ==
    /\ \A i \in Verdicts :
          /\ evals[i].e.operator = "EQUAL"
                => (evals[i].out = "true" <=> evals[i].e.expected = evals[i].actual)
          /\ evals[i].e.operator = "NOTEQUAL"
                => (evals[i].out = "true" <=> evals[i].e.expected # evals[i].actual)
    /\ \A i, j \in Verdicts :
          (/\ evals[i].e.operator = "EQUAL"
           /\ evals[j].e.operator = "NOTEQUAL"
           /\ evals[i].e.expected = evals[j].e.expected
           /\ evals[i].actual = evals[j].actual)
              => evals[i].out # evals[j].out

\* one run gave an ne verdict and an eq verdict on the same expected and
\* actual value, and an eq verdict that is true
C14_Witness ==
    /\ \E i, j \in Verdicts :
          /\ evals[i].e.operator = "EQUAL"
          /\ evals[j].e.operator = "NOTEQUAL"
          /\ evals[i].e.expected = evals[j].e.expected
          /\ evals[i].actual = evals[j].actual
          /\ evals[i].e.expected # <<>>
    /\ \E i \in Verdicts : evals[i].e.operator = "EQUAL" /\ evals[i].out = "true"

-----------------------------------------------------------------------------
(* C15 *)

\* C15: every evaluation that reads the body of a request or of a response,
\* a later Expect on the body and the diagnostic call after a failed one
\* included, observes the complete body.
C15_BodyReadAgain ==
    \A i \in Returned :
        evals[i].e.field = "EXPECT_BODY" => evals[i].actual = evals[i].body

-----------------------------------------------------------------------------
(* C16 *)

\* C16: exit status 0 is reached only when no Expect failed, on the client
\* side or in a handler; when an Expect failed the exit status is not 0, and
\* the failure the process reports names the text of a failed Expect and
\* the actual value it was evaluated against.
C16_ExitCodes ==
    /\ exit = 0 => \A i \in 1..Len(evals) : evals[i].out # "false"
    /\ (exit >= 0 /\ \E i \in 1..Len(evals) : evals[i].out = "false") => exit # 0
    /\ logged # <<>> =>
          \E i \in 1..Len(evals) :
              /\ evals[i].out = "false"
              /\ logged = Failed(evals[i].e, evals[i].actual)

-----------------------------------------------------------------------------
(* C17 *)

\* C17: TxResp.Send writes the status code of the ResponseSpec, every header
\* of it with its value, and a body that is exactly its body string (stated
\* for the status codes WriteHeader takes and that allow a body).
C17_SendWritesSpec ==
    [][(/\ pc = "handler_expect"
        /\ pc' = "main_expect"
        /\ ei > Len(mux[hi].Expectations)
        /\ validStatus(mux[hi].Response.statusCode)
        /\ bodyAllowedForStatus(mux[hi].Response.statusCode))
          => /\ writer'.code = mux[hi].Response.statusCode
             /\ \A k \in DOMAIN mux[hi].Response.headers :
                   /\ CanonicalMIMEHeaderKey(k) \in DOMAIN writer'.header
                   /\ \E n \in 1..Len(writer'.header[CanonicalMIMEHeaderKey(k)]) :
                         writer'.header[CanonicalMIMEHeaderKey(k)][n] = mux[hi].Response.headers[k]
             /\ writer'.body = mux[hi].Response.body]_vars


-----------------------------------------------------------------------------
(* Claims about the scanner *)

\* the calls that return a token
Scans == {i \in 1..Len(scanned) : scanned[i].call # "unread"}

\* C18: the scanner returns EOF exactly at end of input and EOF is absorbing:
\* a call made at end of input returns EOF; when scan or ScanUseful returns
\* EOF no rune of the input remains unread, and every later call returns EOF.
C18_EOFAtEndAndAbsorbing ==
    \A i \in Scans :
        /\ scanned[i].from > Len(input) => scanned[i].tok.typ = "EOF"
        /\ scanned[i].tok.typ = "EOF" =>
              /\ scanned[i].pos > Len(input)
              /\ \A j \in Scans : j > i => scanned[j].tok.typ = "EOF"

\* the text from position i on starts, after its comments, with a whitespace
\* run that contains a line break and does not run to the end of the input
RECURSIVE afterLine(_)
afterLine(i) ==
    IF i > Len(input) THEN i
    ELSE IF input[i] = "\n" THEN i + 1
    ELSE afterLine(i + 1)

RECURSIVE afterBlanks(_)
afterBlanks(i) ==
    IF i > Len(input) THEN i
    ELSE IF isWhitespace(input[i]) THEN afterBlanks(i + 1)
    ELSE i

RECURSIVE lineBreakAhead(_)
lineBreakAhead(i) ==
    IF i > Len(input) THEN FALSE
    ELSE IF input[i] = "#" THEN lineBreakAhead(afterLine(i))
    ELSE IF isWhitespace(input[i])
    THEN \/ /\ afterBlanks(i) <= Len(input)
            /\ \E k \in i..(afterBlanks(i) - 1) : input[k] = "\n"
         \/ lineBreakAhead(afterBlanks(i))
    ELSE FALSE

\* C19: ScanUseful never returns a whitespace or comment token, and a
\* whitespace run with a line break in it is returned as the line-break token
\* "\n" (for `# c\n  \n\n handle` the first significant token is the line break).
C19_LineBreakObservable ==
    \A i \in 1..Len(scanned) :
        scanned[i].call = "ScanUseful" =>
            /\ scanned[i].tok.typ \notin {"WS", "HASH"}
            /\ lineBreakAhead(scanned[i].from) =>
                  scanned[i].tok = newToken("NEWLINE", <<"\n">>)

\* C20: when a tx parser stops its flag loop at EOF, '}' or a line break it
\* pushes that terminator back: the next significant token the stanza parser
\* reads is that same terminator, read at the same place, so no token is lost
\* and none before it is delivered again.
C20_TerminatorPushedBack ==
    [][(/\ pc \in {"TxResp_Parse", "TxReq_Parse"}
        /\ pc' \in {"parseHandle_afterTx", "parseClient_loop"})
       => /\ isTxEnd(token')
          /\ ScanUseful(sc').tok = token'
          /\ ScanUseful(sc').s.pos = ScanUseful(sc).s.pos
          /\ token' = ScanUseful(sc).tok]_vars

\* a tx parser has just stopped at the '}' of its stanza, after a flag
C20_Witness ==
    /\ pc = "parseHandle_afterTx"
    /\ token.typ = "CLOSE_CURLY"
    /\ hs.Response.body # <<>>
    /\ sc.pos <= Len(input)
    /\ input[sc.pos] = "}"

\* the position after the identifier-shaped run that starts at position i
RECURSIVE runEnd(_)
runEnd(i) ==
    IF i > Len(input) THEN i
    ELSE IF isLetter(input[i]) \/ isDigit(input[i]) \/ input[i] \in {"-", "_"}
    THEN runEnd(i + 1)
    ELSE i

\* the entries of the keyword table, keywords and flags
KeywordTable ==
    {<<"e","q">>, <<"n","e">>, <<"h","a","n","d","l","e">>, <<"c","l","i","e","n","t">>, <<"e","x","p","e","c","t">>, <<"r","e","q">>, <<"r","e","s","p">>, <<"m","e","t","h","o","d">>, <<"h","e","a","d","e","r","s">>,
     <<"b","o","d","y">>, <<"s","t","a","t","u","s">>, <<"t","x">>, <<"-","b","o","d","y">>, <<"-","s","t","a","t","u","s">>, <<"-","h","e","a","d","e","r">>, <<"-","m","e","t","h","o","d">>, <<"-","u","r","l">>}

KeywordTypes ==
    {"EQUAL", "NOTEQUAL", "HANDLE", "CLIENT", "EXPECT", "REQ", "RESP", "METHOD",
     "HEADERS", "BODY", "STATUS", "TX", "BODY_ARG", "STATUS_ARG", "HEADER_ARG",
     "METHOD_ARG", "URL_ARG"}

\* decimal digits, after an optional minus sign
isInteger(run) ==
    /\ run # <<>>
    /\ \A k \in 2..Len(run) : isDigit(run[k])
    /\ isDigit(run[1]) \/ (run[1] = "-" /\ Len(run) >= 2)

\* the calls that began at an identifier rune
IdentScans ==
    {i \in Scans : /\ scanned[i].from <= Len(input)
                   /\ runEnd(scanned[i].from) > scanned[i].from}

\* the run a call began at
RunOf(i) == SubSeq(input, scanned[i].from, runEnd(scanned[i].from) - 1)

\* C24: an identifier-shaped run (letters, digits, '-', '_', greedily) is one
\* token carrying the whole run: the keyword or flag token when the run equals
\* a table entry exactly, case included; otherwise INTEGER when it parses as
\* an integer; otherwise ILLEGAL (`-status-code` and `Handle` are ILLEGAL,
\* `-status` is the status flag).
C24_IdentClassified ==
    \A i \in IdentScans :
        /\ scanned[i].tok.val = RunOf(i)
        /\ RunOf(i) \in KeywordTable <=> scanned[i].tok.typ \in KeywordTypes
        /\ RunOf(i) \notin KeywordTable =>
              scanned[i].tok.typ = IF isInteger(RunOf(i)) THEN "INTEGER" ELSE "ILLEGAL"
        /\ RunOf(i) = <<"-","s","t","a","t","u","s">> => scanned[i].tok.typ = "STATUS_ARG"
        /\ RunOf(i) = <<"h","a","n","d","l","e">> => scanned[i].tok.typ = "HANDLE"
        /\ RunOf(i) \in {<<"-","s","t","a","t","u","s","-","c","o","d","e">>, <<"H","a","n","d","l","e">>} => scanned[i].tok.typ = "ILLEGAL"

\* a call has returned the whole run `-status-code` as one ILLEGAL token
C24_Witness ==
    \E i \in IdentScans :
        /\ RunOf(i) = <<"-","s","t","a","t","u","s","-","c","o","d","e">>
        /\ scanned[i].tok = newToken("ILLEGAL", <<"-","s","t","a","t","u","s","-","c","o","d","e">>)
        /\ scanned[i].pos > Len(input)

-----------------------------------------------------------------------------
(* Claims about Parse: malformed and stray input *)

\* the token is a string literal that begins with '/'
isURIPath(tok) == tok.typ = "STRING" /\ tok.val # <<>> /\ tok.val[1] = "/"

\* C21: when the first token after `handle` is not a string literal beginning
\* with '/' (the empty string literal included) Parse returns the parse error
\* of the handle stanza, it neither crashes nor accepts the stanza; every
\* handler parsed has a URIPath starting with '/'.
C21_BadPathIsError ==
    [][pc = "parseHandle_URIPath" =>
          /\ ~isURIPath(token') =>
                /\ pc' = "error"
                /\ err'.msg = "Parse error in 'handle' stanza: expecting a URI path starting with '/'"
                /\ err'.got = token'
          /\ isURIPath(token') => hs'.URIPath = token'.val
          /\ \A i \in 1..Len(h') : h'[i].URIPath # <<>> /\ h'[i].URIPath[1] = "/"]_vars

\* the number of fragments of the script that are in the set S
RECURSIVE CountIn(_, _)
CountIn(items, S) ==
    IF items = <<>> THEN 0
    ELSE (IF Head(items) \in S THEN 1 ELSE 0) + CountIn(Tail(items), S)

\* C22: at the top level an ILLEGAL token makes Parse fail at once with a
\* syntax error naming it; any other significant token that is not handle,
\* client or EOF is skipped without error, and the stanzas parsed before and
\* after it are those of the script.
C22_TopLevelTokens ==
    [][pc = "Parse" =>
          /\ token'.typ = "ILLEGAL" =>
                pc' = "error" /\ err' = Errorf("Parse error", token') /\ h' = h /\ c' = c
          /\ token'.typ \notin {"ILLEGAL", "HANDLE", "CLIENT", "EOF"} =>
                pc' = "Parse" /\ err' = nil /\ h' = h /\ c' = c
          /\ (pc' = "done" /\ \A i \in 1..Len(script) : script[i] # "E_expect") =>
                /\ HandlersParsed' = StanzasOf(script, HandleHeads)
                /\ ClientsParsed' = StanzasOf(script, ClientHeads)
                /\ Len(h') = CountIn(script, HandleHeads \cup {"H_handle_empty", "H_handle_noslash"})
                /\ Len(c') = CountIn(script, ClientHeads)]_vars

\* a stanza between two stray tokens has been parsed
C22_Witness ==
    /\ pc = "done"
    /\ script \in StrayScripts
    /\ script[1] = "T_punct"
    /\ script[Len(script)] = "T_field"
    /\ Len(c) = 1
    /\ Len(c[1].Expectations) = 1

\* the tx statements of a client that TxReq.Parse accepts
ClientTxStmts == {"S_tx_body", "S_tx_url_method"}

\* the places of the script that hold a tx statement of a client
TxPlaces == {i \in 1..Len(script) : script[i] \in ClientTxStmts}

\* one closed client stanza whose body is expects and exactly two tx commands
ClientTwoTx ==
    /\ Len(script) >= 4
    /\ script[1] = "H_client_nemo"
    /\ script[Len(script)] = "X_close"
    /\ \A i \in 2..(Len(script) - 1) : script[i] \in ExpectStmts \cup ClientTxStmts
    /\ Cardinality(TxPlaces) = 2

\* C23: when a client body holds two tx commands the stanza parses, its
\* Request is what the second tx alone produces (what only the first tx set is
\* back at its default) and the expects between the two are kept.
C23_SecondTxOverwrites ==
    ClientTwoTx =>
        /\ pc \notin {"error", "panic"}
        /\ pc = "done" =>
              /\ Len(c) = 1
              /\ \E i \in TxPlaces :
                    /\ \A j \in TxPlaces : j <= i
                    /\ c[1].Request = RequestOf(script[i])
              /\ VerbatimsOf(c[1].Expectations) = ExpectsOfBody(Tail(script))

\* the control points at the head of the loops of Parse, parseHandle,
\* parseClient and the two tx parsers
LoopHeads == {"Parse", "parseHandle_loop", "parseClient_loop", "TxResp_Parse", "TxReq_Parse"}

\* C26: Parse terminates on every finite script: a turn of a loop that does
\* not leave the loop moves the reader forward by at least one rune (so there
\* are at most as many turns as runes), and a turn of a handle or client body
\* loop that reads EOF ends the parse with a result or an error.
C26_ParseTerminates ==
    [][(pc \in LoopHeads) =>
          /\ pc' = pc => sc'.pos > sc.pos
          /\ (pc \in {"parseHandle_loop", "parseClient_loop"} /\ token'.typ = "EOF") =>
                pc' \in {"done", "error"}]_vars

\* C27: an ILLEGAL token in a handle or client body, outside any expect or tx
\* command, makes Parse fail with an error that names the token, as at the top
\* level; no stanza is accepted with an unrecognised token in its body.
C27_IllegalInBodyIsError ==
    [][(pc \in {"parseHandle_loop", "parseClient_loop"}) =>
          /\ token'.typ = "ILLEGAL" => (pc' = "error" /\ err'.got = token')
          /\ (Len(h') > Len(h) \/ Len(c') > Len(c)) =>
                \A i \in 1..Len(script) : script[i] # "S_illegal"]_vars

-----------------------------------------------------------------------------
(* Claims about evaluation and about main *)

\* the verbatim texts of the program's Expects, and the empty text
OtherVerbatims ==
    {e.verbatim : e \in HandlerExpects \cup ClientExpects} \cup {<<>>}

\* the Expect e with the verbatim text v
WithVerbatim(e, v) == [e EXCEPT !.verbatim = v]

\* C25: the verbatim text of an Expect never influences evaluation: an Expect
\* with the same field, header name, operator and expected value and another
\* verbatim text gives the same verdict and the same actual value against the
\* request or response being evaluated.
C25_VerbatimNotEvaluated ==
    /\ (pc = "handler_expect" /\ ei <= Len(mux[hi].Expectations)) =>
          \A v \in OtherVerbatims :
              /\ Request(WithVerbatim(mux[hi].Expectations[ei], v), req)
                    = Request(mux[hi].Expectations[ei], req)
              /\ ActualRequest(WithVerbatim(mux[hi].Expectations[ei], v), req)
                    = ActualRequest(mux[hi].Expectations[ei], req)
    /\ (pc = "main_expect" /\ ei <= Len(c[ci].Expectations)) =>
          \A v \in OtherVerbatims :
              /\ Response(WithVerbatim(c[ci].Expectations[ei], v), resp)
                    = Response(c[ci].Expectations[ei], resp)
              /\ ActualResponse(WithVerbatim(c[ci].Expectations[ei], v), resp)
                    = ActualResponse(c[ci].Expectations[ei], resp)

\* a client Expect is evaluated after a handler Expect with another verbatim
\* text was, in a program that holds three different texts
C25_Witness ==
    /\ pc = "main_expect"
    /\ ei <= Len(c[ci].Expectations)
    /\ Cardinality(OtherVerbatims) >= 3
    /\ \E i \in Verdicts : evals[i].side = "req" /\ evals[i].e.verbatim # c[ci].Expectations[ei].verbatim

\* C28: when the origin serves several requests at once every failed handler
\* Expect ends up in origin.errors: the list holds one error for each failure
\* recorded, none lost or overwritten by the append of another invocation.
C28_NoFailureLost ==
    Len(origin.errors) = Len(evals)

\* C29: once proxy.start() has returned, every path on which the program
\* exits calls proxy.stop() before the process ends.
C29_ProxyStopped ==
    exit # -1 => proxy = "stopped"
====
